---- MODULE Spec2Model ----
(***************************************************************************)
(* A model of the KiotProxy fleet manager (backend/app): the persisted     *)
(* store (database.py), the forwarder registry and its listeners           *)
(* (proxy_handler.py), the two scheduler loops (worker.py) and the caller  *)
(* operations (main.py).                                                   *)
(*                                                                         *)
(* The program is one asyncio event loop: a coroutine runs without         *)
(* interruption from one await to the next.  Every action below is one     *)
(* such run of one task: it starts where the task was suspended and ends   *)
(* at the next await that can suspend it (or at the handler's return).     *)
(***************************************************************************)
EXTENDS Integers, Sequences, FiniteSets, Bags, TLC

VARIABLES
    proxy_keys,     \* data["proxy_keys"]: the persisted entries, in file order
    logs,           \* data["logs"]: the persisted log, in file order
    settings,       \* data["settings"]
    traefik,        \* the routes of the gateway file: a set of <<subdomain, port>>
    proxy_servers,  \* proxy_handler.proxy_servers: the registry, entry id -> item
    stray,          \* listeners still bound whose handler the registry no longer holds
    task,           \* per task: where its coroutine is suspended, and its locals
    now,            \* the wall clock datetime.now() reads
    ever_ids,       \* history: every id get_next_proxy_id has handed out to a persisted entry
    alloc           \* result of the last allocator call (allocator specification only)

vars == <<proxy_keys, logs, settings, traefik, proxy_servers, stray, task, now,
          ever_ids, alloc>>

(***************************************************************************)
(* Optional values (Python None) and text.                                 *)
(***************************************************************************)
None == << >>
Some(v) == <<v>>
Val(o) == o[1]

\* int(text) of a decimal text given as its sequence of digits
RECURSIVE IntOf(_)
IntOf(ds) == IF ds = << >> THEN 0 ELSE 10 * IntOf(SubSeq(ds, 1, Len(ds) - 1)) + ds[Len(ds)]

\* str(n) of a natural number, as its sequence of digits
RECURSIVE StrOf(_)
StrOf(n) == IF n < 10 THEN <<n>> ELSE Append(StrOf(n \div 10), n % 10)

\* An upstream text "host:port" is the pair <<host, port digits>>.
RemoteText(host, digits) == <<host, digits>>

(***************************************************************************)
(* Bounds of the model.                                                    *)
(***************************************************************************)
\* entry ids the forwarder calls of the forwarder specification range over
MaxFwId == 2
\* the ports of the allocation window (the code's window is 100 ports wide)
PortWindow == 3
\* the subdomain labels proxy1..proxyN the allocator tries (the code tries 999)
SubdomainLimit == 4
\* the largest entry id of the program specification
MaxId == 1
\* the longest log of the program specification
MaxLogs == 2
\* the largest entry id of the allocator specification
AllocMaxId == 5
\* the largest entry id and the longest log of the store specification
StoreMaxId == 4
StoreMaxLogs == 7
\* the largest entry id of the fair specification
FairMaxId == 2
\* the last minute of the model's clock
MaxTime == 1

(***************************************************************************)
(* Program constants.                                                      *)
(***************************************************************************)
PROXY_PORT_START == 9000

\* The upstream endpoints the provider hands out.  The second is the same
\* kind of text with a port written with a leading zero: int() accepts it.
Remotes == { RemoteText("10.0.0.1", <<8, 0>>), RemoteText("10.0.0.2", <<0, 8, 1>>) }

(***************************************************************************)
(* models.py and database.py: the persisted entries and the allocator.     *)
(*                                                                         *)
(* Time is counted in minutes.  A timestamp the code keeps as an ISO text  *)
(* (datetime.now().isoformat(), read back with fromisoformat) is the       *)
(* minute it names; an absent one is None.                                 *)
(***************************************************************************)
\* What the provider answers (kiotproxy.py, data["data"]): the endpoint text,
\* the fields that travel with it, and the expiry (absent, or a time).
UpstreamInfo(remote, expirationAt) ==
    [http |-> remote, realIpAddress |-> remote[1], location |-> "VN",
     expirationAt |-> expirationAt, ttl |-> 60, ttc |-> 5]

\* The provider gives the expiry in epoch milliseconds; the handlers keep
\* datetime.fromtimestamp(ms / 1000), and no expiry for an absent or zero one.
ExpirationIso(expirationAt) ==
    IF expirationAt = None \/ Val(expirationAt) = 0 THEN None
    ELSE Some(Val(expirationAt) \div 60000)

\* f"proxy{i}"
SubdomainLabel(i) == <<"proxy", i>>

\* ProxyKey(...) as create_proxy builds it (main.py 249-267)
ProxyKey(id, key, subdomain, port, data, t) ==
    [id |-> id, user_id |-> 1, key_name |-> <<data.location, id>>,
     kiotproxy_key |-> key, subdomain |-> subdomain, port |-> port,
     region |-> "random", is_active |-> TRUE,
     remote_http |-> data.http, remote_ip |-> data.realIpAddress,
     location |-> data.location, status |-> "active",
     latency_ms |-> None, last_check_at |-> None,
     expiration_at |-> ExpirationIso(data.expirationAt), ttl |-> data.ttl, ttc |-> data.ttc,
     last_rotated_at |-> Some(t), created_at |-> t]

Ids(db) == { db[i].id : i \in 1..Len(db) }
Ports(db) == { db[i].port : i \in 1..Len(db) }
Subdomains(db) == { db[i].subdomain : i \in 1..Len(db) }

\* get_proxy_by_id: the first entry with the id, or None
get_proxy_by_id(db, id) ==
    LET hits == { i \in 1..Len(db) : db[i].id = id }
    IN  IF hits = {} THEN None
        ELSE Some(db[CHOOSE i \in hits : \A j \in hits : i <= j])

\* get_active_proxies: the entries flagged is_active, in file order
get_active_proxies(db) == SelectSeq(db, LAMBDA p : p.is_active)

\* add_proxy
add_proxy(db, proxy) == Append(db, proxy)

\* update_proxy: the first entry with proxy's id is replaced by proxy, whole;
\* with no such entry nothing changes.
update_proxy(db, proxy) ==
    LET hits == { i \in 1..Len(db) : db[i].id = proxy.id }
    IN  IF hits = {} THEN db
        ELSE [db EXCEPT ![CHOOSE i \in hits : \A j \in hits : i <= j] = proxy]

\* delete_proxy
delete_proxy(db, id) == SelectSeq(db, LAMBDA p : p.id # id)

MaxOf(S) == CHOOSE x \in S : \A y \in S : y <= x

\* get_next_proxy_id, were it to count the entries instead of taking the maximum
get_next_proxy_id_by_count(db) == Len(db) + 1

\* get_next_proxy_id
get_next_proxy_id(db) == IF db = << >> THEN 1 ELSE MaxOf(Ids(db)) + 1

\* The loop of get_next_subdomain from i on: the first free label, or None
\* when the loop runs out (the code then raises).
RECURSIVE ScanSubdomains(_, _, _)
ScanSubdomains(existing, i, stop) ==
    IF i >= stop THEN None
    ELSE IF SubdomainLabel(i) \notin existing THEN Some(SubdomainLabel(i))
    ELSE ScanSubdomains(existing, i + 1, stop)

\* The loop of get_next_port from port on.
RECURSIVE ScanPorts(_, _, _)
ScanPorts(used, port, stop) ==
    IF port >= stop THEN None
    ELSE IF port \notin used THEN Some(port)
    ELSE ScanPorts(used, port + 1, stop)

\* get_next_subdomain: range(1, 1000) in the code, range(1, SubdomainLimit + 1) here
get_next_subdomain(db) == ScanSubdomains(Subdomains(db), 1, SubdomainLimit + 1)

\* get_next_port with a loop that stops one port short of the window
get_next_port_short(db) ==
    ScanPorts(Ports(db), PROXY_PORT_START, PROXY_PORT_START + PortWindow - 1)

\* get_next_port: range(port_start, port_start + 100) in the code,
\* range(port_start, port_start + PortWindow) here
get_next_port(db) == ScanPorts(Ports(db), PROXY_PORT_START, PROXY_PORT_START + PortWindow)

(***************************************************************************)
(* proxy_handler.py: RawProxyHandler and the registry.                     *)
(*                                                                         *)
(* The registry is the dict proxy_servers, a function from the registered  *)
(* ids to their items.  An item's handler is represented by what the code  *)
(* reads of it: whether its server is still listening (open).              *)
(* A listener that is bound while no registry item holds its handler can   *)
(* never be closed again (nothing references the handler).  stray records  *)
(* the entry ids for which at least one such listener is bound; no code    *)
(* reads it.                                                               *)
(***************************************************************************)
\* RawProxyHandler.__init__: remote_host, remote_port = split(':'), int()
Handler(id, port, remote_proxy) ==
    [proxy_id |-> id, port |-> port,
     remote_host |-> remote_proxy[1], remote_port |-> IntOf(remote_proxy[2])]

\* f"{self.remote_host}:{self.remote_port}"
HandlerRemote(h) == RemoteText(h.remote_host, StrOf(h.remote_port))

RegIds(reg) == DOMAIN reg
RegGet(reg, id) == reg[id]
RegWithout(reg, id) == [i \in DOMAIN reg \ {id} |-> reg[i]]
EmptyReg == [i \in {} |-> 0]

\* is_running: proxy_id in proxy_servers
is_running(id) == id \in RegIds(proxy_servers)

\* The world the forwarder code acts on.
World(reg, str) == [reg |-> reg, stray |-> str]

\* del proxy_servers[id]: the item goes; a server it held open stays bound.
DelItem(w, id) ==
    IF id \notin RegIds(w.reg) THEN w
    ELSE World(RegWithout(w.reg, id),
               IF w.reg[id].open THEN w.stray \cup {id} ELSE w.stray)

\* handler.server.close() of the handler the registry holds for id
CloseServer(w, id) == World([w.reg EXCEPT ![id].open = FALSE], w.stray)

\* SetItem as proxy_servers.setdefault(id, ...) would be: an item already
\* under the key is kept.
SetItemKeepsOld(w, h) ==
    IF h.proxy_id \in RegIds(w.reg) THEN w
    ELSE World([i \in DOMAIN w.reg \cup {h.proxy_id} |->
                   IF i = h.proxy_id
                   THEN [port |-> h.port, remote |-> HandlerRemote(h), open |-> TRUE]
                   ELSE w.reg[i]],
               w.stray)

\* proxy_servers[id] = {handler, port, remote}: an item already under the key
\* loses its place to the new handler, and its server, if open, stays bound.
SetItem(w, h) ==
    LET item == [port |-> h.port, remote |-> HandlerRemote(h), open |-> TRUE]
        id == h.proxy_id
    IN  World([i \in DOMAIN w.reg \cup {id} |-> IF i = id THEN item ELSE w.reg[i]],
              IF id \in RegIds(w.reg) /\ w.reg[id].open THEN w.stray \cup {id} ELSE w.stray)

(***************************************************************************)
(* A task's frame: where the coroutine is suspended (pc) and its locals.   *)
(*   call    the proxy_handler function in progress: start, stop, restart  *)
(*           (the rest of a restart, once its stop is over, is start)      *)
(*   id, port, remote   the arguments of that call (the new handler)       *)
(*   retry   RawProxyHandler.start's retry flag                            *)
(*   pid     the conflicting entry start is stopping                       *)
(*   res     in an idle frame: how the task's last call ended (call and id *)
(*           name it)                                                      *)
(*   op      the handler or loop pass the task is in                       *)
(*   proxy   the entry object the handler holds (get_proxy_by_id's result, *)
(*           or the loop's element), None when it holds none               *)
(*   data    the provider's answer the handler holds                       *)
(*   proxies, idx   a loop's list of entry objects, and its position in it *)
(*   t0      the datetime.now() the loop read before it suspended          *)
(*   cfg     the settings object the rotation loop read at the cycle start *)
(*   keys    the credentials of a bulk import; idx is its position in them *)
(*   ids     the list(proxy_servers.keys()) cleanup_all_proxies goes over  *)
(*   success_count, failed_count   the lengths of the bulk import's        *)
(*           results lists, kept in the idle frame as its answer           *)
(* Forwarder positions (the awaits of proxy_handler.py):                   *)
(*   stop_wait     stop_proxy_handler: in handler.stop, server.wait_closed *)
(*   sleep02       restart_proxy_handler: asyncio.sleep(0.2)               *)
(*   bind          start: asyncio.sleep(0.3) and start_server, before the  *)
(*                 bind (nothing shared is read between the two)           *)
(*   bound         start: start_server has bound and yields once before it *)
(*                 returns the server                                      *)
(*   cleanup_wait  start: stop_proxy_handler(pid), server.wait_closed      *)
(*   sleep05       start: asyncio.sleep(0.5) before start(retry=False)     *)
(***************************************************************************)
IdleFrame ==
    [pc |-> "idle", op |-> "none", call |-> "none", id |-> 0, port |-> 0,
     remote |-> None, retry |-> TRUE, pid |-> 0, res |-> "none",
     proxy |-> None, data |-> None, proxies |-> << >>, idx |-> 0,
     t0 |-> 0, cfg |-> None,
     keys |-> << >>, success_count |-> 0, failed_count |-> 0, ids |-> << >>]

FwPositions == {"stop_wait", "sleep02", "bind", "bound", "cleanup_wait", "sleep05"}

\* What a run of forwarder code yields: the world, the frame, and whether the
\* call is still suspended (pending) or has returned (ok) or raised (fail).
Out(w, f, out) == [w |-> w, f |-> f, out |-> out]

\* a start whose retry keeps retries enabled
StartEntryRetriesAgain(w, f, retry) ==
    Out(IF f.id \in RegIds(w.reg) THEN DelItem(w, f.id) ELSE w,
        [f EXCEPT !.pc = "bind", !.retry = TRUE, !.call = "start"], "pending")

\* RawProxyHandler.start(retry), from its first line to its first await.
\* self is the handler just constructed: its server is None, so the
\* self.stop() of line 92 closes nothing and only deletes the registry item.
StartEntry(w, f, retry) ==
    Out(IF f.id \in RegIds(w.reg) THEN DelItem(w, f.id) ELSE w,
        [f EXCEPT !.pc = "bind", !.retry = retry, !.call = "start"], "pending")

\* start_proxy_handler(proxy_id, port, remote_proxy): the constructor splits
\* remote_proxy, which raises for None before anything is started.
start_proxy_handler(w, f, id, port, remote) ==
    IF remote = None
    THEN Out(w, [f EXCEPT !.id = id, !.port = port, !.remote = remote], "fail")
    ELSE StartEntry(w, [f EXCEPT !.id = id, !.port = port, !.remote = remote], TRUE)

\* stop_proxy_handler without its membership test: proxy_servers[proxy_id]
\* raises KeyError for an id that is not registered.
stop_proxy_handler_unguarded(w, f, id) ==
    IF id \in RegIds(w.reg)
    THEN Out(CloseServer(w, id), [f EXCEPT !.pc = "stop_wait", !.id = id], "pending")
    ELSE Out(w, [f EXCEPT !.id = id], "fail")

\* stop_proxy_handler(proxy_id), to its first await: handler.stop() closes the
\* server and waits in wait_closed; an id that is not registered returns at once.
stop_proxy_handler(w, f, id) ==
    IF id \in RegIds(w.reg)
    THEN Out(CloseServer(w, id), [f EXCEPT !.pc = "stop_wait", !.id = id], "pending")
    ELSE Out(w, [f EXCEPT !.id = id], "ok")

\* restart_proxy_handler(proxy_id, port, remote_proxy), to its first await
restart_proxy_handler(w, f, id, port, remote) ==
    LET g == [f EXCEPT !.id = id, !.port = port, !.remote = remote]
        s == stop_proxy_handler(w, g, id)
    IN  IF s.out = "ok" THEN Out(s.w, [g EXCEPT !.pc = "sleep02"], "pending") ELSE s

\* The scan of lines 118-126 stops at the first item, in the dict's insertion
\* order, that is on the same port under another id.  The model keeps no
\* insertion order: the scan may stop at any such item (0: there is none).
ConflictingPids(reg, id, port) ==
    LET hits == { pid \in DOMAIN reg : reg[pid].port = port /\ pid # id }
    IN  IF hits = {} THEN {0} ELSE hits

\* The outcomes of the bind inside asyncio.start_server.  Every listener of
\* the program is opened with reuse_port, so the kernel lets a bind succeed
\* whoever of the program's own listeners holds the port; it refuses the bind
\* (errno 98) when a socket outside the program holds it, and may fail it
\* for another reason.
BindOutcomes == {"ok", "inuse", "oserror"}

\* One run of a suspended forwarder call, from its await to the next one.
FwStep(w, f, bind, pid) ==
    CASE f.pc = "stop_wait" ->
            \* handler.stop line 148-149, then the caller of stop_proxy_handler
            LET w1 == DelItem(w, f.id) IN
            IF f.call = "restart"
            THEN Out(w1, [f EXCEPT !.pc = "sleep02"], "pending")
            ELSE Out(w1, f, "ok")
      [] f.pc = "sleep02" ->
            start_proxy_handler(w, f, f.id, f.port, f.remote)
      [] f.pc = "bind" ->
            IF bind = "ok" THEN Out(w, [f EXCEPT !.pc = "bound", !.retry = TRUE], "pending")
            ELSE IF bind = "inuse" /\ f.retry
            THEN IF pid = 0 THEN Out(w, f, "fail")
                 ELSE Out(CloseServer(w, pid),
                          [f EXCEPT !.pc = "cleanup_wait", !.pid = pid], "pending")
            ELSE Out(w, f, "fail")
      [] f.pc = "cleanup_wait" ->
            Out(DelItem(w, f.pid), [f EXCEPT !.pc = "sleep05", !.pid = 0], "pending")
      [] f.pc = "sleep05" ->
            StartEntry(w, f, FALSE)
      [] f.pc = "bound" ->
            Out(SetItem(w, Handler(f.id, f.port, f.remote)), f, "ok")

\* A lower bound on the listeners opened for entry id that are bound right
\* now: the registered handler's, those of handlers about to be registered,
\* and one if any stray listener of the id is left.
OpenItems(reg) == { i \in DOMAIN reg : reg[i].open }
BoundTasks == { t \in DOMAIN task : task[t].pc = "bound" }
ListenersOf(id) ==
    Cardinality(OpenItems(proxy_servers) \cap {id})
    + Cardinality({ t \in BoundTasks : task[t].id = id })
    + Cardinality(stray \cap {id})

(***************************************************************************)
(* The forwarder specification: callers that use proxy_handler's three     *)
(* functions with any arguments, in any interleaving.                      *)
(***************************************************************************)
FwTasks == {"c1", "c2"}
FwIds == 1..MaxFwId
FwPorts == {PROXY_PORT_START, PROXY_PORT_START + 1}
\* Each caller passes an upstream endpoint of its own: the forwarder code only
\* parses and stores the endpoint, so which caller passes which text changes
\* nothing else.
FwRemote(t) == IF t = "c1" THEN RemoteText("10.0.0.1", <<8, 0>>)
               ELSE RemoteText("10.0.0.2", <<0, 8, 1>>)

StoreVars == <<proxy_keys, logs, settings, traefik, now, ever_ids, alloc>>

\* The frame of a task whose call has returned (ok) or raised (fail).
Finished(f, out) == [IdleFrame EXCEPT !.call = f.call, !.id = f.id, !.res = out]

FwApply(t, r) ==
    /\ proxy_servers' = r.w.reg
    /\ stray' = r.w.stray
    /\ task' = [task EXCEPT ![t] = IF r.out = "pending" THEN r.f ELSE Finished(r.f, r.out)]
    /\ UNCHANGED StoreVars

FwCallStart(t) ==
    /\ task[t].pc = "idle"
    /\ \E id \in FwIds, port \in FwPorts :
          FwApply(t, start_proxy_handler(World(proxy_servers, stray),
                                         [IdleFrame EXCEPT !.call = "start"],
                                         id, port, FwRemote(t)))

FwCallStop(t) ==
    /\ task[t].pc = "idle"
    /\ \E id \in FwIds :
          FwApply(t, stop_proxy_handler(World(proxy_servers, stray),
                                        [IdleFrame EXCEPT !.call = "stop"], id))

FwCallRestart(t) ==
    /\ task[t].pc = "idle"
    /\ \E id \in FwIds, port \in FwPorts :
          FwApply(t, restart_proxy_handler(World(proxy_servers, stray),
                                           [IdleFrame EXCEPT !.call = "restart"],
                                           id, port, FwRemote(t)))

FwResume(t) ==
    /\ task[t].pc \in FwPositions
    /\ \E bind \in BindOutcomes,
          pid \in ConflictingPids(proxy_servers, task[t].id, task[t].port) :
          FwApply(t, FwStep(World(proxy_servers, stray), task[t], bind, pid))

FwInit ==
    /\ proxy_keys = << >>
    /\ logs = << >>
    /\ settings = [auto_rotate_on_expiration |-> TRUE,
                   auto_rotate_interval_enabled |-> FALSE,
                   auto_rotate_interval_minutes |-> 10]
    /\ traefik = {}
    /\ proxy_servers = EmptyReg
    /\ stray = {}
    /\ task = [t \in FwTasks |-> IdleFrame]
    /\ now = 0
    /\ ever_ids = {}
    /\ alloc = None

FwNext ==
    \E t \in FwTasks :
        \/ FwCallStart(t)
        \/ FwCallStop(t)
        \/ FwCallRestart(t)
        \/ FwResume(t)

SpecForwarder == FwInit /\ [][FwNext]_vars

(***************************************************************************)
(* Claims about the forwarder (specification SpecForwarder).               *)
(***************************************************************************)
AllIdle == \A t \in DOMAIN task : task[t].pc = "idle"

\* Task t's call of start_proxy_handler (or the start that ends a restart)
\* returns in this step without an error.
StartReturns(t) ==
    /\ task[t].pc \in FwPositions
    /\ task[t].call = "start"
    /\ task'[t].pc = "idle"
    /\ task'[t].res = "ok"

\* Task t's call of stop_proxy_handler returns in this step: at once from
\* idle, or from its wait in handler.stop.
StopReturns(t) ==
    /\ task'[t].pc = "idle"
    /\ task'[t].call = "stop"
    /\ \/ task[t].pc = "stop_wait"
       \/ task[t].pc = "idle" /\ task'[t] # task[t]

\* C2: after any sequence of start calls for one entry id, at most one
\* listener opened for that id remains bound.
C2_OneListenerPerId ==
    AllIdle => \A id \in FwIds : ListenersOf(id) <= 1

\* C8: when start(id, port, upstream) returns successfully, is_running(id) is
\* true and the registry maps id to that port and to the upstream's endpoint
\* (its host and its port number); when stop(id) returns, is_running(id) is
\* false.
C8_StartStopRunning ==
    [][\A t \in FwTasks :
          /\ StartReturns(t) =>
                /\ task[t].id \in RegIds(proxy_servers')
                /\ proxy_servers'[task[t].id].port = task[t].port
                /\ proxy_servers'[task[t].id].remote[1] = task[t].remote[1]
                /\ IntOf(proxy_servers'[task[t].id].remote[2]) = IntOf(task[t].remote[2])
          /\ StopReturns(t) => task'[t].id \notin RegIds(proxy_servers')]_vars

\* C8's case: a start has returned successfully and its id is registered.
C8_Witness ==
    \E t \in FwTasks :
        /\ task[t].pc = "idle" /\ task[t].call = "start" /\ task[t].res = "ok"
        /\ is_running(task[t].id)

\* C9: stop(id) for an id that is not in the registry raises no error and
\* leaves the registry and every bound listener as they were; and the state a
\* stop(id) returns in is one in which a second stop(id) is such a no-op.
C9_StopIdempotent ==
    [][\A t \in FwTasks :
          /\ ( /\ task[t].pc = "idle"
               /\ task'[t].call = "stop"
               /\ task'[t] # task[t]
               /\ task'[t].id \notin RegIds(proxy_servers) )
             => /\ task'[t].pc = "idle"
                /\ task'[t].res = "ok"
                /\ UNCHANGED <<proxy_servers, stray>>
          /\ StopReturns(t) =>
                LET w == World(proxy_servers', stray')
                    again == stop_proxy_handler(w, IdleFrame, task'[t].id)
                IN  again.out = "ok" /\ again.w = w]_vars

\* C9's case: a stop of an id that was not registered has returned while
\* another entry stays registered.
C9_Witness ==
    \E t \in FwTasks :
        /\ task[t].pc = "idle" /\ task[t].call = "stop" /\ task[t].res = "ok"
        /\ task[t].id \notin RegIds(proxy_servers)
        /\ RegIds(proxy_servers) # {}

\* C10: when a start or restart completes, no two registry items hold the
\* same port.
C10_SinglePortOwner ==
    [][\A t \in FwTasks :
          StartReturns(t) =>
              \A i, j \in RegIds(proxy_servers') :
                  i # j => proxy_servers'[i].port # proxy_servers'[j].port]_vars

(***************************************************************************)
(* The allocator specification: the allocation block of create_proxy and   *)
(* delete_proxy, over every store the file can hold.                       *)
(*                                                                         *)
(* The store is a file that outlives the process, and PROXY_PORT_START is  *)
(* read from the environment at every call of get_next_port, so an entry   *)
(* written by an earlier run may hold a port beyond the present window.    *)
(* The initial stores hold pairwise distinct ports and labels.             *)
(***************************************************************************)
PortWindowSet == PROXY_PORT_START .. (PROXY_PORT_START + PortWindow - 1)
AllocPorts == PROXY_PORT_START .. (PROXY_PORT_START + PortWindow)
AllocLabels == 1 .. SubdomainLimit
AllocData == UpstreamInfo(RemoteText("10.0.0.1", <<8, 0>>), None)

\* the k-th smallest element of a finite set of integers
RECURSIVE Nth(_, _)
Nth(S, k) ==
    LET m == CHOOSE x \in S : \A y \in S : x <= y
    IN  IF k = 1 THEN m ELSE Nth(S \ {m}, k - 1)

AllocStore(ps, ss) ==
    [k \in 1..Cardinality(ps) |->
        ProxyKey(k, "key", SubdomainLabel(Nth(ss, k)), Nth(ps, k), AllocData, 0)]

\* What the allocation block of create_proxy computes on db: the id, then
\* the label, then the port; a raise ends the block.
Allocation(db) ==
    LET id == get_next_proxy_id(db)
        subdomain == get_next_subdomain(db)
        port == get_next_port(db)
    IN  IF subdomain = None
        THEN [id |-> id, subdomain |-> None, port |-> None, raised |-> "subdomain"]
        ELSE IF port = None
        THEN [id |-> id, subdomain |-> subdomain, port |-> None, raised |-> "port"]
        ELSE [id |-> id, subdomain |-> subdomain, port |-> port, raised |-> "none"]

AllocInit ==
    /\ \E ps \in SUBSET AllocPorts : \E ss \in SUBSET AllocLabels :
          /\ Cardinality(ps) = Cardinality(ss)
          /\ proxy_keys = AllocStore(ps, ss)
    /\ ever_ids = Ids(proxy_keys)
    /\ alloc = None
    /\ logs = << >>
    /\ settings = [auto_rotate_on_expiration |-> TRUE,
                   auto_rotate_interval_enabled |-> FALSE,
                   auto_rotate_interval_minutes |-> 10]
    /\ traefik = {}
    /\ proxy_servers = EmptyReg
    /\ stray = {}
    /\ task = [t \in {} |-> IdleFrame]
    /\ now = 0

\* create_proxy from the allocation to add_proxy (main.py 233-270)
AllocCreate ==
    LET a == Allocation(proxy_keys)
    IN  /\ a.id <= AllocMaxId
        /\ alloc' = Some(a)
        /\ IF a.raised = "none"
           THEN /\ proxy_keys' = add_proxy(proxy_keys,
                        ProxyKey(a.id, "key", Val(a.subdomain), Val(a.port), AllocData, now))
                /\ ever_ids' = ever_ids \cup {a.id}
           ELSE UNCHANGED <<proxy_keys, ever_ids>>
        /\ UNCHANGED <<logs, settings, traefik, proxy_servers, stray, task, now>>

\* delete_proxy (database.py 170-174)
AllocDelete(id) ==
    /\ proxy_keys' = delete_proxy(proxy_keys, id)
    /\ UNCHANGED <<logs, settings, traefik, proxy_servers, stray, task, now, ever_ids, alloc>>

AllocNext == AllocCreate \/ \E id \in 1..AllocMaxId : AllocDelete(id)

SpecAlloc == AllocInit /\ [][AllocNext]_vars

(***************************************************************************)
(* Claims about the allocator (specification SpecAlloc).                   *)
(***************************************************************************)
Appended == Len(proxy_keys') = Len(proxy_keys) + 1
Newest(db) == db[Len(db)]

FirstFree(pool, held) ==
    IF pool \subseteq held THEN None
    ELSE Some(CHOOSE x \in pool \ held : \A y \in pool \ held : x <= y)

\* C7: on every store, get_next_port returns the lowest port of the window
\* that no persisted entry holds and get_next_subdomain the label proxyN of
\* the lowest N no persisted entry holds; with every value of the pool held
\* the call raises instead of returning a held value.
C7_FirstFree ==
    /\ get_next_port(proxy_keys) = FirstFree(PortWindowSet, Ports(proxy_keys))
    /\ LET heldN == { n \in AllocLabels : SubdomainLabel(n) \in Subdomains(proxy_keys) }
           n == FirstFree(AllocLabels, heldN)
       IN  get_next_subdomain(proxy_keys) =
              IF n = None THEN None ELSE Some(SubdomainLabel(Val(n)))
    /\ alloc # None =>
          /\ Val(alloc).raised = "none" =>
                /\ Val(Val(alloc).port) \in PortWindowSet
                /\ \E n \in AllocLabels : Val(Val(alloc).subdomain) = SubdomainLabel(n)
          /\ Val(alloc).raised # "none" => Val(alloc).port = None

\* the window was exhausted while a label other than proxy1 was still free
C7_Witness ==
    /\ alloc # None
    /\ Val(alloc).raised = "port"
    /\ Val(alloc).subdomain # None
    /\ Val(alloc).subdomain # Some(SubdomainLabel(1))
    /\ PortWindowSet \subseteq Ports(proxy_keys)

(***************************************************************************)
(* main.py and worker.py: the caller operations and the two loops.         *)
(*                                                                         *)
(* A run of a handler works on the record s of what it can change: the     *)
(* entries, the log, the gateway routes, the forwarder world, and the      *)
(* history of ids.  A run yields Res(s, f): the new record and the task's  *)
(* new frame.                                                              *)
(***************************************************************************)
St(db, lg, tr, w, ev) == [db |-> db, logs |-> lg, traefik |-> tr, w |-> w, ever |-> ev]
Res(s, f) == [s |-> s, f |-> f]

\* the frame of a caller whose request has been answered
Done(out) == [IdleFrame EXCEPT !.res = out]

\* an add_log that keeps the newest entry only
add_log_rolling(s, proxy_id, action, status, region, details, tn) ==
    [s EXCEPT !.logs = <<[id |-> Len(s.logs) + 1, proxy_id |-> proxy_id,
                          action |-> action, region |-> region,
                          status |-> status, details |-> details,
                          timestamp |-> tn]>>]

\* add_log
add_log(s, proxy_id, action, status, region, details, tn) ==
    [s EXCEPT !.logs = Append(@, [id |-> Len(s.logs) + 1, proxy_id |-> proxy_id,
                                  action |-> action, region |-> region,
                                  status |-> status, details |-> details,
                                  timestamp |-> tn])]

\* The routers of generate_traefik_config(proxies): one per subdomain of an
\* is_active entry, pointing at that entry's port; of two entries with the
\* same subdomain the later one in the list overwrites the earlier.
Routes(proxies) ==
    LET act == SelectSeq(proxies, LAMBDA p : p.is_active)
    IN  { <<act[i].subdomain, act[i].port>> :
             i \in { k \in 1..Len(act) :
                        \A j \in (k + 1)..Len(act) : act[j].subdomain # act[k].subdomain } }

\* generate_traefik_config(get_active_proxies())
generate_traefik_config(s) == [s EXCEPT !.traefik = Routes(get_active_proxies(s.db))]

\* a rotation that leaves the entry's expiration_at as it was
RotatedKeepsExpiry(p, data, region, tn) ==
    [p EXCEPT !.remote_http = data.http, !.remote_ip = data.realIpAddress,
              !.location = data.location,
              !.ttl = data.ttl, !.ttc = data.ttc, !.region = region,
              !.last_rotated_at = Some(tn)]

\* the assignments of a rotation to the entry object (main.py 435-442,
\* worker.py 153-159 and 207-213)
Rotated(p, data, region, tn) ==
    [p EXCEPT !.remote_http = data.http, !.remote_ip = data.realIpAddress,
              !.location = data.location,
              !.expiration_at = ExpirationIso(data.expirationAt),
              !.ttl = data.ttl, !.ttc = data.ttc, !.region = region,
              !.last_rotated_at = Some(tn)]

\* the assignments of update_proxy_info to the entry object (main.py 496-502)
Refreshed(p, data) ==
    [p EXCEPT !.remote_http = data.http, !.remote_ip = data.realIpAddress,
              !.location = data.location,
              !.expiration_at = ExpirationIso(data.expirationAt),
              !.ttl = data.ttl, !.ttc = data.ttc, !.status = "active"]

\* create_proxy after start_proxy_handler (main.py 276-305)
CreateDone(s, f, out, tn) ==
    IF out = "ok"
    THEN Res(add_log(generate_traefik_config(s), Val(f.proxy).id, "create", "success",
                     Some(Val(f.proxy).region),
                     Some(<<"Created proxy", Val(f.proxy).subdomain>>), tn),
             Done("ok"))
    ELSE Res(s, Done("fail"))

\* delete_proxy_endpoint after stop_proxy_handler (main.py 803-815)
DeleteDone(s, f, out, tn) ==
    LET s1 == [s EXCEPT !.db = delete_proxy(s.db, Val(f.proxy).id)]
    IN  Res(add_log(generate_traefik_config(s1), Val(f.proxy).id, "delete", "success",
                    None, None, tn),
            Done("ok"))

\* rotate_proxy after restart_proxy_handler (main.py 430-471)
RotateDone(s, f, out, tn) ==
    IF out = "ok"
    THEN LET p == Rotated(Val(f.proxy), Val(f.data), "random", tn)
             s1 == [s EXCEPT !.db = update_proxy(s.db, p)]
         IN  Res(add_log(s1, p.id, "rotate", "success", Some("random"),
                         Some(<<"Rotated to", p.remote_ip>>), tn),
                 Done("ok"))
    ELSE Res(add_log(s, Val(f.proxy).id, "rotate", "failed", Some("random"),
                     Some(<<"error">>), tn),
             Done("fail"))

\* update_proxy_info after restart_proxy_handler (main.py 509-534)
UpdateDone(s, f, out, tn) ==
    IF out = "ok"
    THEN Res(add_log(s, Val(f.proxy).id, "update", "success", None,
                     Some(<<"Updated to", Val(f.proxy).remote_ip>>), tn),
             Done("ok"))
    ELSE Res(add_log(s, Val(f.proxy).id, "update", "failed", None, Some(<<"error">>), tn),
             Done("fail"))

\* health_check_worker, suspended in asyncio.sleep(interval)
HealthFrame == [IdleFrame EXCEPT !.pc = "health_sleep", !.op = "health"]

\* The for loop of health_check_worker up to its next await: entries without
\* an upstream are passed over; proxies keeps the objects still to visit, the
\* first being the one under probe.
RECURSIVE SkipNoRemote(_)
SkipNoRemote(ps) ==
    IF ps = << >> THEN ps
    ELSE IF Head(ps).remote_http = None THEN SkipNoRemote(Tail(ps)) ELSE ps

HealthAdvance(ps, tn) ==
    IF SkipNoRemote(ps) = << >> THEN HealthFrame
    ELSE [HealthFrame EXCEPT !.pc = "probe", !.proxies = SkipNoRemote(ps), !.t0 = tn]

\* How a probe of the upstream can go (worker.py 41-58, main.py 560-577):
\*   http         the bytes read hold "HTTP" and the connection closes in order
\*   http_reset   the bytes read hold "HTTP" and writer.wait_closed() raises
\*                the OSError of a connection the peer has reset
\*   no_http      the read returns no byte, or bytes without "HTTP"
\*   unreachable  the connect or the read times out, or raises OSError
ProbeOutcomes == {"http", "http_reset", "no_http", "unreachable"}

\* the bytes read back within the read timeout contain "HTTP"
BytesHaveHTTP(outcome) == outcome \in {"http", "http_reset"}

\* The assignments at the end of a probe (worker.py 60-79, main.py 579-597):
\* lines 64-66 are reached when no await of the try block has raised.
Probed(p, outcome, t0, tn) ==
    IF outcome = "http"
    THEN [p EXCEPT !.status = "active", !.latency_ms = Some((tn - t0) * 60000),
                   !.last_check_at = Some(tn)]
    ELSE [p EXCEPT !.status = "error", !.latency_ms = None, !.last_check_at = Some(tn)]

\* health_check_worker from the end of a probe (worker.py 60-87): the verdict
\* goes into the object loaded before the probe, which is written back whole.
HealthProbed(s, f, outcome, tn) ==
    Res([s EXCEPT !.db = update_proxy(s.db, Probed(Head(f.proxies), outcome, f.t0, tn))],
        HealthAdvance(Tail(f.proxies), tn))

\* check_proxy_health from the end of its probe (main.py 579-608)
CheckProbed(s, f, outcome, tn) ==
    LET q == Probed(Val(f.proxy), outcome, f.t0, tn)
        s1 == [s EXCEPT !.db = update_proxy(s.db, q)]
    IN  Res(add_log(s1, q.id, "health_check",
                    IF q.status = "active" THEN "success" ELSE "failed", None,
                    IF q.latency_ms # None /\ Val(q.latency_ms) # 0
                    THEN Some(<<"Latency", Val(q.latency_ms)>>)
                    ELSE Some(<<"Check failed">>), tn),
            Done("ok"))

\* auto_rotation_worker, suspended in asyncio.sleep(interval)
RotFrame == [IdleFrame EXCEPT !.pc = "rot_sleep", !.op = "rotation"]

\* rotate_expired_proxies without the minute of grace: due at the expiry
ExpDueAtExpiry(p, t0) == p.expiration_at # None /\ t0 >= Val(p.expiration_at)

\* rotate_expired_proxies line 126-132
ExpDue(p, t0) == p.expiration_at # None /\ t0 >= Val(p.expiration_at) - 1

\* rotate_by_interval with a strict comparison: due after the interval
IntDueAfter(p, t0, interval_minutes) ==
    LET last_rotated == IF p.last_rotated_at = None THEN p.created_at
                        ELSE Val(p.last_rotated_at)
    IN  t0 - last_rotated > interval_minutes

\* rotate_by_interval line 177-186
IntDue(p, t0, interval_minutes) ==
    LET last_rotated == IF p.last_rotated_at = None THEN p.created_at
                        ELSE Val(p.last_rotated_at)
    IN  t0 - last_rotated >= interval_minutes

RotDue(f, i) ==
    IF f.op = "auto_exp" THEN ExpDue(f.proxies[i], f.t0)
    ELSE IntDue(f.proxies[i], f.t0, Val(f.cfg).auto_rotate_interval_minutes)

\* the first object from position from on that the pass rotates (0: none)
NextDue(f, from) ==
    LET due == { i \in from..Len(f.proxies) : RotDue(f, i) }
    IN  IF due = {} THEN 0 ELSE CHOOSE i \in due : \A j \in due : i <= j

\* the loop's locals, without those of a forwarder call that is over
RotBase(f) ==
    [RotFrame EXCEPT !.op = f.op, !.proxies = f.proxies, !.t0 = f.t0, !.cfg = f.cfg]

\* rotate_by_interval from its first line to its first await
RotInterval(f, tn) ==
    LET g == [RotBase(f) EXCEPT !.op = "auto_int", !.t0 = tn]
    IN  IF NextDue(g, 1) # 0 THEN [g EXCEPT !.pc = "rot_fetch", !.idx = NextDue(g, 1)]
        ELSE RotFrame

\* The pass in progress from position from on, to the loop's next await;
\* the interval pass follows the expiry pass over the same objects.
RotAdvance(f, from, tn) ==
    IF NextDue(f, from) # 0
    THEN [RotBase(f) EXCEPT !.pc = "rot_fetch", !.idx = NextDue(f, from)]
    ELSE IF f.op = "auto_exp" /\ Val(f.cfg).auto_rotate_interval_enabled
    THEN RotInterval(f, tn)
    ELSE RotFrame

\* a cycle that runs the expiration pass whatever the settings say
RotStartIgnoresFlag(cfg, db, tn) ==
    LET f == [RotFrame EXCEPT !.cfg = Some(cfg), !.proxies = get_active_proxies(db),
                              !.t0 = tn]
    IN  RotAdvance([f EXCEPT !.op = "auto_exp"], 1, tn)

\* auto_rotation_worker from line 102 to its first await
RotStart(cfg, db, tn) ==
    LET f == [RotFrame EXCEPT !.cfg = Some(cfg), !.proxies = get_active_proxies(db),
                              !.t0 = tn]
    IN  IF cfg.auto_rotate_on_expiration
        THEN RotAdvance([f EXCEPT !.op = "auto_exp"], 1, tn)
        ELSE IF cfg.auto_rotate_interval_enabled THEN RotInterval(f, tn)
        ELSE RotFrame

RotAction(f) == IF f.op = "auto_exp" THEN "auto_rotate_expiration" ELSE "auto_rotate_interval"

\* an except branch around the whole for loop: the failure ends the pass
RotFailedEndsPass(s, f, tn) ==
    LET p == f.proxies[f.idx]
    IN  Res(add_log(s, p.id, RotAction(f), "failed", Some(p.region), Some(<<"error">>), tn),
            RotAdvance(f, Len(f.proxies) + 1, tn))

\* an except branch that also marks the entry as in error
RotFailedMarksError(s, f, tn) ==
    LET p == f.proxies[f.idx]
        s1 == [s EXCEPT !.db = update_proxy(s.db, [p EXCEPT !.status = "error"])]
    IN  Res(add_log(s1, p.id, RotAction(f), "failed", Some(p.region), Some(<<"error">>), tn),
            RotAdvance(f, f.idx + 1, tn))

\* the except branch of a pass (worker.py 166-168, 221-223), then the loop
RotFailed(s, f, tn) ==
    LET p == f.proxies[f.idx]
    IN  Res(add_log(s, p.id, RotAction(f), "failed", Some(p.region), Some(<<"error">>), tn),
            RotAdvance(f, f.idx + 1, tn))

\* a pass after restart_proxy_handler (worker.py 148-168, 202-223), then the loop
RotDone(s, f, out, tn) ==
    IF out = "ok"
    THEN LET p == Rotated(f.proxies[f.idx], Val(f.data), f.proxies[f.idx].region, tn)
             s1 == [s EXCEPT !.db = update_proxy(s.db, p)]
             detail == IF f.op = "auto_exp" THEN <<"Rotated on expiration">>
                       ELSE <<"Rotated on interval",
                              Val(f.cfg).auto_rotate_interval_minutes>>
         IN  Res(add_log(s1, p.id, RotAction(f), "success", Some(p.region), Some(detail), tn),
                 RotAdvance([f EXCEPT !.proxies[f.idx] = p], f.idx + 1, tn))
    ELSE RotFailed(s, f, tn)

\* proxy_servers.clear(): every item goes; the servers they held open stay bound
ClearRegistry(w) == World(EmptyReg, w.stray \cup OpenItems(w.reg))

\* restart_all_proxies, its locals: the list of entry objects and the position
RecoverBase(f) == [IdleFrame EXCEPT !.op = "recover", !.proxies = f.proxies]

\* The for loop of restart_all_proxies from position i to its next await, or
\* to the function's end (main.py 86-109): an entry without an upstream is
\* marked pending and written back at once; the gateway file is generated
\* from the objects of the list whose status is active.
RECURSIVE RecoverAdvance(_, _, _)
RecoverAdvance(s, f, i) ==
    IF i > Len(f.proxies)
    THEN Res([s EXCEPT !.traefik =
                 Routes(SelectSeq(f.proxies, LAMBDA p : p.status = "active"))],
             Done("ok"))
    ELSE IF f.proxies[i].remote_http = None
    THEN LET q == [f.proxies[i] EXCEPT !.status = "pending"]
         IN  RecoverAdvance([s EXCEPT !.db = update_proxy(@, q)],
                            [f EXCEPT !.proxies[i] = q], i + 1)
    ELSE LET p == f.proxies[i]
             r == start_proxy_handler(s.w, [RecoverBase(f) EXCEPT !.idx = i],
                                      p.id, p.port, p.remote_http)
         IN  Res([s EXCEPT !.w = r.w], r.f)

\* restart_all_proxies after a start_proxy_handler (main.py 91-102), then the loop
RecoverDone(s, f, out) ==
    LET q == [f.proxies[f.idx] EXCEPT !.status = IF out = "ok" THEN "active" ELSE "error"]
    IN  RecoverAdvance([s EXCEPT !.db = update_proxy(@, q)],
                       [f EXCEPT !.proxies[f.idx] = q], f.idx + 1)

\* restart_all_proxies from its first line to its first await (main.py 76-90)
RecoverBegin(s) ==
    RecoverAdvance([s EXCEPT !.w = ClearRegistry(@)],
                   [IdleFrame EXCEPT !.op = "recover", !.proxies = get_active_proxies(s.db)],
                   1)

\* bulk_import_proxies: "Maximum 50 keys per import"
BulkLimit == 50

\* The body of a bulk import is its sequence of lines; a line is a credential
\* or "", a line that strip() leaves empty.
\* keys = [k.strip() for k in body.split('\n') if k.strip()]
ParseKeys(lines) == SelectSeq(lines, LAMBDA k : k # "")

BulkBase(f) ==
    [IdleFrame EXCEPT !.op = "bulk", !.keys = f.keys,
                      !.success_count = f.success_count,
                      !.failed_count = f.failed_count]

\* the for loop of bulk_import_proxies from credential k to its next await,
\* or to the answer (main.py 326-330 and 393-402)
BulkAdvance(s, f, k) ==
    IF k > Len(f.keys)
    THEN Res(generate_traefik_config(s),
             [Done("ok") EXCEPT !.success_count = f.success_count,
                                !.failed_count = f.failed_count])
    ELSE Res(s, [BulkBase(f) EXCEPT !.pc = "bulk_fetch", !.idx = k])

\* bulk_import_proxies without its limit on the number of credentials
BulkStartUnlimited(s, lines) ==
    LET keys == ParseKeys(lines)
    IN  IF keys = << >> THEN Res(s, Done("no_keys"))
        ELSE BulkAdvance(s, [IdleFrame EXCEPT !.keys = keys], 1)

\* bulk_import_proxies from the request to its first await, or to its 400
\* (main.py 311-330)
BulkStart(s, lines) ==
    LET keys == ParseKeys(lines)
    IN  IF keys = << >> THEN Res(s, Done("no_keys"))
        ELSE IF Len(keys) > BulkLimit THEN Res(s, Done("too_many"))
        ELSE BulkAdvance(s, [IdleFrame EXCEPT !.keys = keys], 1)

\* bulk_import_proxies after start_proxy_handler (main.py 373-391)
BulkDone(s, f, out, tn) ==
    IF out = "ok"
    THEN BulkAdvance(add_log(s, Val(f.proxy).id, "bulk_import", "success",
                             Some(Val(f.proxy).region),
                             Some(<<"Imported as", Val(f.proxy).key_name>>), tn),
                     [f EXCEPT !.success_count = @ + 1], f.idx + 1)
    ELSE BulkAdvance(s, [f EXCEPT !.failed_count = @ + 1], f.idx + 1)

\* the orders in which a dict with the keys S can list them
Orders(S) ==
    { q \in [1..Cardinality(S) -> S] : \A i, j \in 1..Cardinality(S) : i # j => q[i] # q[j] }

\* the frame of the lifespan task while the application serves (main.py 58)
ServingFrame == [IdleFrame EXCEPT !.pc = "serving", !.op = "lifespan"]

\* A task after task.cancel(): CancelledError is thrown into it at the await
\* it is suspended in, no except clause of the loops catches it
\* (except Exception), and none of its code runs again.
CancelledFrame(f) == [IdleFrame EXCEPT !.pc = "cancelled", !.op = f.op]

\* the listeners of the cancelled tasks fs that start_server had bound and
\* not yet returned: nothing holds their servers any more
CancelledWorld(w, fs) == World(w.reg, w.stray \cup { f.id : f \in { g \in fs : g.pc = "bound" } })

\* cleanup_all_proxies that gives up at the first id it has stopped
RECURSIVE ShutdownStopsFirst(_, _, _)
ShutdownStopsFirst(s, f, k) ==
    IF k > Len(f.ids) \/ k > 1
    THEN Res(s, [IdleFrame EXCEPT !.pc = "exited", !.op = "shutdown", !.res = "ok",
                                  !.ids = f.ids])
    ELSE LET g == [IdleFrame EXCEPT !.op = "shutdown", !.call = "stop",
                                    !.ids = f.ids, !.idx = k]
             r == stop_proxy_handler(s.w, g, f.ids[k])
         IN  IF r.out = "pending" THEN Res([s EXCEPT !.w = r.w], r.f)
             ELSE ShutdownStopsFirst([s EXCEPT !.w = r.w], f, k + 1)

\* cleanup_all_proxies from the k-th id of its list to its next await, or to
\* the end of lifespan (proxy_handler.py 191-197, main.py 68-71): an id that
\* is no longer registered is passed over, a stop that raises is logged
RECURSIVE ShutdownAdvance(_, _, _)
ShutdownAdvance(s, f, k) ==
    IF k > Len(f.ids)
    THEN Res(s, [IdleFrame EXCEPT !.pc = "exited", !.op = "shutdown", !.res = "ok",
                                  !.ids = f.ids])
    ELSE LET g == [IdleFrame EXCEPT !.op = "shutdown", !.call = "stop",
                                    !.ids = f.ids, !.idx = k]
             r == stop_proxy_handler(s.w, g, f.ids[k])
         IN  IF r.out = "pending" THEN Res([s EXCEPT !.w = r.w], r.f)
             ELSE ShutdownAdvance([s EXCEPT !.w = r.w], f, k + 1)

\* cleanup_all_proxies after a stop_proxy_handler
ShutdownDone(s, f, out) == ShutdownAdvance(s, f, f.idx + 1)

\* What follows a forwarder call that has returned (ok) or raised (fail), in
\* the handler or pass that made it.
Continue(s, f, out, tn) ==
    CASE f.op = "create" -> CreateDone(s, f, out, tn)
      [] f.op = "delete" -> DeleteDone(s, f, out, tn)
      [] f.op = "rotate" -> RotateDone(s, f, out, tn)
      [] f.op = "update" -> UpdateDone(s, f, out, tn)
      [] f.op \in {"auto_exp", "auto_int"} -> RotDone(s, f, out, tn)
      [] f.op = "recover" -> RecoverDone(s, f, out)
      [] f.op = "bulk" -> BulkDone(s, f, out, tn)
      [] f.op = "shutdown" -> ShutdownDone(s, f, out)

\* A run of forwarder code r inside a handler: the handler stays suspended
\* with it, or goes on in the same run once it is over.
AfterCall(s, r, tn) ==
    IF r.out = "pending" THEN Res([s EXCEPT !.w = r.w], r.f)
    ELSE Continue([s EXCEPT !.w = r.w], r.f, r.out, tn)

(***************************************************************************)
(* The actions: one per run of a task between two awaits.                  *)
(***************************************************************************)
Cur == St(proxy_keys, logs, traefik, World(proxy_servers, stray), ever_ids)

Commit(t, r) ==
    /\ proxy_keys' = r.s.db
    /\ logs' = r.s.logs
    /\ traefik' = r.s.traefik
    /\ proxy_servers' = r.s.w.reg
    /\ stray' = r.s.w.stray
    /\ ever_ids' = r.s.ever
    /\ task' = [task EXCEPT ![t] = r.f]
    /\ UNCHANGED <<settings, now, alloc>>

Keys == {"k1"}

\* What a call of the provider yields: None when it raises, else its data.
\* The expiry, when the provider gives one, lies a minute ahead.
Answers(expiries) ==
    {None} \cup { Some(UpstreamInfo(r, e)) : r \in Remotes, e \in expiries }
NoExpiry == {None}
AnyExpiry(tn) == {None, Some((tn + 1) * 60000)}

\* create_proxy up to the await of get_current_proxy (main.py 227-230)
CreateCall(t) ==
    /\ task[t].pc = "idle"
    /\ Commit(t, Res(Cur, [IdleFrame EXCEPT !.pc = "create_fetch", !.op = "create"]))

\* create_proxy from the provider's answer to the await inside
\* start_proxy_handler, or to its end (main.py 230-305)
CreateFetched(t, answers) ==
    /\ task[t].pc = "create_fetch"
    /\ \E ans \in answers, key \in Keys :
          LET a == Allocation(proxy_keys)
              p == ProxyKey(a.id, key, Val(a.subdomain), Val(a.port), Val(ans), now)
              s1 == [Cur EXCEPT !.db = add_proxy(proxy_keys, p), !.ever = @ \cup {a.id}]
              f == [task[t] EXCEPT !.proxy = Some(p)]
          IN  IF ans = None \/ a.raised # "none"
              THEN Commit(t, Res(Cur, Done("fail")))
              ELSE Commit(t, AfterCall(s1, start_proxy_handler(s1.w, f, p.id, p.port,
                                                               p.remote_http), now))

\* delete_proxy_endpoint up to the await inside stop_proxy_handler, or to its
\* end (main.py 789-815)
DeleteCall(t, ids) ==
    /\ task[t].pc = "idle"
    /\ \E id \in ids :
          LET proxy == get_proxy_by_id(proxy_keys, id)
              f == [IdleFrame EXCEPT !.op = "delete", !.call = "stop", !.proxy = proxy]
          IN  IF proxy = None
              THEN Commit(t, Res(Cur, Done("notfound")))
              ELSE Commit(t, AfterCall(Cur, stop_proxy_handler(Cur.w, f, id), now))

\* rotate_proxy up to the await of get_new_proxy (main.py 414-425)
RotateCall(t, ids) ==
    /\ task[t].pc = "idle"
    /\ \E id \in ids :
          LET proxy == get_proxy_by_id(proxy_keys, id)
          IN  IF proxy = None
              THEN Commit(t, Res(Cur, Done("notfound")))
              ELSE Commit(t, Res(Cur, [IdleFrame EXCEPT !.pc = "rotate_fetch",
                                                        !.op = "rotate", !.proxy = proxy]))

\* rotate_proxy from the provider's answer to the await inside
\* restart_proxy_handler (main.py 425-428), or to its end when the provider raised
RotateFetched(t, answers) ==
    /\ task[t].pc = "rotate_fetch"
    /\ \E ans \in answers :
          LET f == [task[t] EXCEPT !.data = ans, !.call = "restart"]
              p == Val(f.proxy)
          IN  IF ans = None
              THEN Commit(t, RotateDone(Cur, f, "fail", now))
              ELSE Commit(t, AfterCall(Cur, restart_proxy_handler(Cur.w, f, p.id, p.port,
                                                                  Val(ans).http), now))

\* update_proxy_info up to the await of get_current_proxy (main.py 477-489)
UpdateCall(t, ids) ==
    /\ task[t].pc = "idle"
    /\ \E id \in ids :
          LET proxy == get_proxy_by_id(proxy_keys, id)
          IN  IF proxy = None
              THEN Commit(t, Res(Cur, Done("notfound")))
              ELSE Commit(t, Res(Cur, [IdleFrame EXCEPT !.pc = "update_fetch",
                                                        !.op = "update", !.proxy = proxy]))

\* update_proxy_info from the provider's answer to the await inside
\* restart_proxy_handler (main.py 489-507), or to its end when the provider raised
UpdateFetched(t, answers) ==
    /\ task[t].pc = "update_fetch"
    /\ \E ans \in answers :
          IF ans = None
          THEN Commit(t, UpdateDone(Cur, task[t], "fail", now))
          ELSE LET p == Refreshed(Val(task[t].proxy), Val(ans))
                   s1 == [Cur EXCEPT !.db = update_proxy(proxy_keys, p)]
                   f == [task[t] EXCEPT !.proxy = Some(p), !.call = "restart"]
               IN  Commit(t, AfterCall(s1, restart_proxy_handler(s1.w, f, p.id, p.port,
                                                                 p.remote_http), now))

\* a handler or pass suspended inside a forwarder call runs to its next await
Resume(t) ==
    /\ task[t].pc \in FwPositions
    /\ \E bind \in BindOutcomes,
          pid \in ConflictingPids(proxy_servers, task[t].id, task[t].port) :
          Commit(t, AfterCall(Cur, FwStep(Cur.w, task[t], bind, pid), now))

\* health_check_worker from the end of its sleep to its next await (worker.py 27-46)
HealthWake(t) ==
    /\ task[t].pc = "health_sleep"
    /\ Commit(t, Res(Cur, HealthAdvance(get_active_proxies(proxy_keys), now)))

\* health_check_worker from the end of a probe to its next await (worker.py 46-87)
HealthProbe(t) ==
    /\ task[t].pc = "probe"
    /\ \E outcome \in ProbeOutcomes : Commit(t, HealthProbed(Cur, task[t], outcome, now))

\* check_proxy_health up to the await of open_connection (main.py 540-565)
CheckCall(t, ids) ==
    /\ task[t].pc = "idle"
    /\ \E id \in ids :
          LET proxy == get_proxy_by_id(proxy_keys, id)
          IN  IF proxy = None
              THEN Commit(t, Res(Cur, Done("notfound")))
              ELSE IF Val(proxy).remote_http = None
              THEN Commit(t, Res(Cur, Done("fail")))
              ELSE Commit(t, Res(Cur, [IdleFrame EXCEPT !.pc = "check_probe", !.op = "check",
                                                        !.proxy = proxy, !.t0 = now]))

\* check_proxy_health from the end of its probe to its end (main.py 565-608)
CheckProbe(t) ==
    /\ task[t].pc = "check_probe"
    /\ \E outcome \in ProbeOutcomes : Commit(t, CheckProbed(Cur, task[t], outcome, now))

\* auto_rotation_worker from the end of its sleep to its next await (worker.py 102-136)
RotWake(t) ==
    /\ task[t].pc = "rot_sleep"
    /\ Commit(t, Res(Cur, RotStart(settings, proxy_keys, now)))

\* a pass from the provider's answer to the await inside restart_proxy_handler,
\* or, when the provider raised, to the loop's next await
RotFetched(t, answers) ==
    /\ task[t].pc = "rot_fetch"
    /\ \E ans \in answers :
          LET f == [task[t] EXCEPT !.data = ans, !.call = "restart"]
              p == f.proxies[f.idx]
          IN  IF ans = None
              THEN Commit(t, RotFailed(Cur, f, now))
              ELSE Commit(t, AfterCall(Cur, restart_proxy_handler(Cur.w, f, p.id, p.port,
                                                                  Val(ans).http), now))

\* a minute passes, up to minute max
TickTo(max) ==
    /\ now < max
    /\ now' = now + 1
    /\ UNCHANGED <<proxy_keys, logs, settings, traefik, proxy_servers, stray, task,
                   ever_ids, alloc>>

\* a minute passes
Tick == TickTo(MaxTime)

\* update_settings_endpoint without its validation of the interval
update_settings_unchecked(cfg, request) ==
    LET s1 == IF request.auto_rotate_on_expiration = None THEN cfg
              ELSE [cfg EXCEPT !.auto_rotate_on_expiration =
                                   Val(request.auto_rotate_on_expiration)]
        s2 == IF request.auto_rotate_interval_enabled = None THEN s1
              ELSE [s1 EXCEPT !.auto_rotate_interval_enabled =
                                  Val(request.auto_rotate_interval_enabled)]
        s3 == IF request.auto_rotate_interval_minutes = None THEN s2
              ELSE [s2 EXCEPT !.auto_rotate_interval_minutes =
                                  Val(request.auto_rotate_interval_minutes)]
    IN  [settings |-> s3, out |-> "ok"]

\* update_settings_endpoint (main.py 825-846) on the persisted settings cfg:
\* the fields of the request that are given go into the object get_settings
\* loaded; an interval under 2 raises 400 before update_settings persists it.
update_settings_endpoint(cfg, request) ==
    LET s1 == IF request.auto_rotate_on_expiration = None THEN cfg
              ELSE [cfg EXCEPT !.auto_rotate_on_expiration =
                                   Val(request.auto_rotate_on_expiration)]
        s2 == IF request.auto_rotate_interval_enabled = None THEN s1
              ELSE [s1 EXCEPT !.auto_rotate_interval_enabled =
                                  Val(request.auto_rotate_interval_enabled)]
        s3 == IF request.auto_rotate_interval_minutes = None THEN s2
              ELSE [s2 EXCEPT !.auto_rotate_interval_minutes =
                                  Val(request.auto_rotate_interval_minutes)]
    IN  IF /\ request.auto_rotate_interval_minutes # None
           /\ Val(request.auto_rotate_interval_minutes) < 2
        THEN [settings |-> cfg, out |-> "rejected"]
        ELSE [settings |-> s3, out |-> "ok"]

\* PUT /api/settings: no await, one run from the request to the answer
UpdateSettings(t, requests) ==
    /\ task[t].pc = "idle"
    /\ \E request \in requests :
          /\ settings' = update_settings_endpoint(settings, request).settings
          /\ task' = [task EXCEPT ![t] = Done(update_settings_endpoint(settings, request).out)]
    /\ UNCHANGED <<proxy_keys, logs, traefik, proxy_servers, stray, now, ever_ids, alloc>>

\* bulk_import_proxies from the request to its first await or to its answer
\* (main.py 311-330)
BulkCall(t, bodies) ==
    /\ task[t].pc = "idle"
    /\ \E lines \in bodies : Commit(t, BulkStart(Cur, lines))

\* bulk_import_proxies from the provider's answer for a credential to the
\* await inside start_proxy_handler, to the next provider call or to the
\* answer (main.py 330-402)
BulkFetched(t, answers) ==
    /\ task[t].pc = "bulk_fetch"
    /\ \E ans \in answers :
          LET f == task[t]
              a == Allocation(proxy_keys)
              p == ProxyKey(a.id, f.keys[f.idx], Val(a.subdomain), Val(a.port), Val(ans), now)
              s1 == [Cur EXCEPT !.db = add_proxy(proxy_keys, p), !.ever = @ \cup {a.id}]
          IN  IF ans = None \/ a.raised # "none"
              THEN Commit(t, BulkAdvance(Cur, [f EXCEPT !.failed_count = @ + 1], f.idx + 1))
              ELSE Commit(t, AfterCall(s1, start_proxy_handler(s1.w, [f EXCEPT !.proxy = Some(p)],
                                                               p.id, p.port, p.remote_http),
                                       now))

\* lifespan after its yield, to the first await of cleanup_all_proxies or to
\* its end (main.py 60-71): the loops are cancelled, then every id the
\* registry lists is stopped.  uvicorn lets the requests in flight complete
\* before it sends the shutdown event: the handlers in apis are idle.
Shutdown(t, loops, apis) ==
    /\ task[t].pc = "serving"
    /\ \A a \in apis : task[a].pc = "idle"
    /\ \E ids \in Orders(RegIds(proxy_servers)) :
          LET s == [Cur EXCEPT !.w = CancelledWorld(@, { task[l] : l \in loops })]
              r == ShutdownAdvance(s, [IdleFrame EXCEPT !.ids = ids], 1)
          IN  /\ proxy_servers' = r.s.w.reg
              /\ stray' = r.s.w.stray
              /\ task' = [x \in DOMAIN task |->
                             IF x = t THEN r.f
                             ELSE IF x \in loops THEN CancelledFrame(task[x])
                             ELSE task[x]]
    /\ UNCHANGED <<proxy_keys, logs, settings, traefik, now, ever_ids, alloc>>

\* The bounds of a specification: a step that would take the log or the ids
\* beyond them is left out.
InBounds(maxid, maxlogs) ==
    /\ Len(logs') <= maxlogs
    /\ \A i \in 1..Len(proxy_keys') : proxy_keys'[i].id <= maxid

(***************************************************************************)
(* The program specification: one caller of the API next to the health     *)
(* loop, from the empty store init_data_file writes.                       *)
(***************************************************************************)
Init ==
    /\ proxy_keys = << >>
    /\ logs = << >>
    /\ settings = [auto_rotate_on_expiration |-> TRUE,
                   auto_rotate_interval_enabled |-> FALSE,
                   auto_rotate_interval_minutes |-> 10]
    /\ traefik = {}
    /\ proxy_servers = EmptyReg
    /\ stray = {}
    /\ task = [t \in {"api", "health"} |-> IF t = "api" THEN IdleFrame ELSE HealthFrame]
    /\ now = 0
    /\ ever_ids = {}
    /\ alloc = None

Next ==
    \/ CreateCall("api") /\ InBounds(MaxId, MaxLogs)
    \/ CreateFetched("api", Answers(NoExpiry)) /\ InBounds(MaxId, MaxLogs)
    \/ DeleteCall("api", 1..MaxId) /\ InBounds(MaxId, MaxLogs)
    \/ RotateCall("api", 1..MaxId) /\ InBounds(MaxId, MaxLogs)
    \/ RotateFetched("api", Answers(NoExpiry)) /\ InBounds(MaxId, MaxLogs)
    \/ UpdateCall("api", 1..MaxId) /\ InBounds(MaxId, MaxLogs)
    \/ UpdateFetched("api", Answers(NoExpiry)) /\ InBounds(MaxId, MaxLogs)
    \/ Resume("api") /\ InBounds(MaxId, MaxLogs)
    \/ HealthWake("health") /\ InBounds(MaxId, MaxLogs)
    \/ HealthProbe("health") /\ InBounds(MaxId, MaxLogs)
    \/ Tick

Spec == Init /\ [][Next]_vars

(***************************************************************************)
(* Claims about the program (specification Spec).                          *)
(***************************************************************************)
Entries(db, id) == { i \in 1..Len(db) : db[i].id = id }

\* create_proxy ends with an error after it has persisted its entry: its
\* start_proxy_handler raised
CreateStartFailed ==
    /\ task["api"].op = "create"
    /\ task["api"].pc \in FwPositions
    /\ task'["api"].pc = "idle"
    /\ task'["api"].res = "fail"

\* C4: when create has persisted the new entry and the start of its forwarder
\* fails, the caller gets the error, no forwarder is registered for the new
\* id, and the persisted entry is still there, marked with status error.
C4_FailedStartMarksError ==
    [][CreateStartFailed =>
          /\ Val(task["api"].proxy).id \notin RegIds(proxy_servers')
          /\ \E i \in Entries(proxy_keys', Val(task["api"].proxy).id) :
                proxy_keys'[i].status = "error"]_vars

\* C5: for every entry id, the persisted last_rotated_at never decreases from
\* one state to the next.
C5_LastRotatedMonotone ==
    [][\A i \in 1..Len(proxy_keys) : \A j \in Entries(proxy_keys', proxy_keys[i].id) :
          proxy_keys[i].last_rotated_at # None =>
             /\ proxy_keys'[j].last_rotated_at # None
             /\ Val(proxy_keys'[j].last_rotated_at) >= Val(proxy_keys[i].last_rotated_at)]_vars

(***************************************************************************)
(* The store specification: the program some time after three creates have *)
(* succeeded, with one caller that creates and deletes next to the health  *)
(* loop.                                                                   *)
(***************************************************************************)
EmptySt == St(<< >>, << >>, {}, World(EmptyReg, {}), {})

\* s after a create_proxy that went through at minute 0, the provider having
\* answered data (main.py 227-301)
SeedData(s, data) ==
    LET a == Allocation(s.db)
        p == ProxyKey(a.id, "k1", Val(a.subdomain), Val(a.port), data, 0)
        s1 == [s EXCEPT !.db = add_proxy(@, p), !.ever = @ \cup {a.id}]
        s2 == [s1 EXCEPT !.w = SetItem(@, Handler(p.id, p.port, p.remote_http))]
    IN  CreateDone(s2, [IdleFrame EXCEPT !.proxy = Some(p)], "ok", 0).s

Seed(s) == SeedData(s, AllocData)

StoreInit ==
    LET s == Seed(Seed(Seed(EmptySt)))
    IN  /\ proxy_keys = s.db
        /\ logs = s.logs
        /\ traefik = s.traefik
        /\ proxy_servers = s.w.reg
        /\ stray = s.w.stray
        /\ ever_ids = s.ever
        /\ settings = [auto_rotate_on_expiration |-> TRUE,
                       auto_rotate_interval_enabled |-> FALSE,
                       auto_rotate_interval_minutes |-> 10]
        /\ task = [t \in {"api", "health"} |-> IF t = "api" THEN IdleFrame ELSE HealthFrame]
        /\ now = 0
        /\ alloc = None

StoreNext ==
    \/ CreateCall("api") /\ InBounds(StoreMaxId, StoreMaxLogs)
    \/ CreateFetched("api", {None, Some(AllocData)}) /\ InBounds(StoreMaxId, StoreMaxLogs)
    \/ DeleteCall("api", 1..StoreMaxId) /\ InBounds(StoreMaxId, StoreMaxLogs)
    \/ Resume("api") /\ InBounds(StoreMaxId, StoreMaxLogs)
    \/ HealthWake("health") /\ InBounds(StoreMaxId, StoreMaxLogs)
    \/ HealthProbe("health") /\ InBounds(StoreMaxId, StoreMaxLogs)

SpecStore == StoreInit /\ [][StoreNext]_vars

\* C1: in every reachable state of the store no two persisted entries have
\* the same port and no two have the same subdomain.
C1_DistinctPortsAndSubdomains ==
    \A i, j \in 1..Len(proxy_keys) :
        i # j => /\ proxy_keys[i].port # proxy_keys[j].port
                 /\ proxy_keys[i].subdomain # proxy_keys[j].subdomain

(***************************************************************************)
(* The fair specification: one caller that creates entries, next to the    *)
(* health loop and the rotation loop, with the fairness the event loop     *)
(* gives: a sleep ends, an awaited answer arrives, and a task that can run *)
(* does run.  The provider leases without expiry and the settings are the  *)
(* defaults (rotation by interval off), so no pass of the rotation loop    *)
(* finds an entry to rotate, whatever the clock says: the clock stays      *)
(* where it is.  Whether a request comes in is up to the caller.           *)
(***************************************************************************)
FairInit ==
    /\ proxy_keys = << >>
    /\ logs = << >>
    /\ settings = [auto_rotate_on_expiration |-> TRUE,
                   auto_rotate_interval_enabled |-> FALSE,
                   auto_rotate_interval_minutes |-> 10]
    /\ traefik = {}
    /\ proxy_servers = EmptyReg
    /\ stray = {}
    /\ task = [t \in {"api", "health", "rot"} |->
                  IF t = "api" THEN IdleFrame
                  ELSE IF t = "health" THEN HealthFrame ELSE RotFrame]
    /\ now = 0
    /\ ever_ids = {}
    /\ alloc = None

FairCreateFetched == CreateFetched("api", Answers(NoExpiry)) /\ InBounds(FairMaxId, FairMaxId)

FairNext ==
    \/ CreateCall("api") /\ InBounds(FairMaxId, FairMaxId)
    \/ FairCreateFetched
    \/ Resume("api")
    \/ HealthWake("health")
    \/ HealthProbe("health")
    \/ RotWake("rot")

FairSpec ==
    /\ FairInit
    /\ [][FairNext]_vars
    /\ WF_vars(FairCreateFetched)
    /\ WF_vars(Resume("api"))
    /\ WF_vars(HealthWake("health"))
    /\ WF_vars(HealthProbe("health"))
    /\ WF_vars(RotWake("rot"))

\* the entry with this id says active and the registry holds no forwarder for it
ActiveUnregistered(id) ==
    /\ id \notin RegIds(proxy_servers)
    /\ \E i \in Entries(proxy_keys, id) : proxy_keys[i].status = "active"

\* C3: whenever a persisted entry has status active while no forwarder is
\* registered for its id, the system eventually reaches a state in which a
\* forwarder is registered for the id or the entry's status is not active.
C3_ActiveEventuallyForwarded ==
    \A id \in 1..FairMaxId : ActiveUnregistered(id) ~> ~ActiveUnregistered(id)

(***************************************************************************)
(* The endpoint specification: one caller that creates, updates and        *)
(* rotates next to the health loop, with a provider whose answer can carry *)
(* a null endpoint ("http": null next to the other fields).                *)
(***************************************************************************)
\* the largest entry id and the longest log of the endpoint specification
EndpointMaxId == 1
EndpointMaxLogs == 2

\* a provider answer whose "http" is null
NoEndpoint(data) == [data EXCEPT !.http = None]

\* the provider raises, answers with an endpoint, or answers without one
EndpointAnswers == {None, Some(AllocData), Some(NoEndpoint(AllocData))}

EndpointNext ==
    \/ CreateCall("api") /\ InBounds(EndpointMaxId, EndpointMaxLogs)
    \/ CreateFetched("api", EndpointAnswers) /\ InBounds(EndpointMaxId, EndpointMaxLogs)
    \/ UpdateCall("api", 1..EndpointMaxId) /\ InBounds(EndpointMaxId, EndpointMaxLogs)
    \/ UpdateFetched("api", EndpointAnswers) /\ InBounds(EndpointMaxId, EndpointMaxLogs)
    \/ RotateCall("api", 1..EndpointMaxId) /\ InBounds(EndpointMaxId, EndpointMaxLogs)
    \/ RotateFetched("api", EndpointAnswers) /\ InBounds(EndpointMaxId, EndpointMaxLogs)
    \/ Resume("api") /\ InBounds(EndpointMaxId, EndpointMaxLogs)
    \/ HealthWake("health") /\ InBounds(EndpointMaxId, EndpointMaxLogs)
    \/ HealthProbe("health") /\ InBounds(EndpointMaxId, EndpointMaxLogs)

SpecEndpoint == Init /\ [][EndpointNext]_vars

\* C11: in every reachable state no persisted entry has status active while
\* its upstream endpoint is null, also after create, update or rotation got
\* a provider answer that carries no endpoint.
C11_ActiveHasEndpoint ==
    \A i \in 1..Len(proxy_keys) :
        proxy_keys[i].status = "active" => proxy_keys[i].remote_http # None

(***************************************************************************)
(* Claims about delete (specification SpecStore).                          *)
(***************************************************************************)
\* the step is a run of task t: no other task moves and the clock stands
StepOf(t) ==
    /\ \A u \in DOMAIN task \ {t} : task'[u] = task[u]
    /\ now' = now

\* delete_proxy_endpoint returns success in this step: from inside its
\* stop_proxy_handler, or in one run when no forwarder was registered (of the
\* caller's requests only delete can run from start to success without an await)
DeleteReturned ==
    /\ StepOf("api")
    /\ task'["api"].pc = "idle"
    /\ task'["api"].res = "ok"
    /\ task["api"].op = "delete" \/ task["api"].pc = "idle"

\* the entry object delete_proxy_endpoint loaded, given the id it was called with
DeletedEntry(id) ==
    IF task["api"].op = "delete" THEN Val(task["api"].proxy)
    ELSE Val(get_proxy_by_id(proxy_keys, id))

\* C12: when delete(id) returns success, one delete log entry for id has been
\* appended, no forwarder is registered for id, no persisted entry has the
\* id, and the gateway routes hold none for the entry's subdomain.
C12_DeleteRemovesAll ==
    [][DeleteReturned =>
          /\ Len(logs') = Len(logs) + 1
          /\ LET e == logs'[Len(logs')]
             IN  /\ e.action = "delete" /\ e.status = "success"
                 /\ task["api"].op = "delete" => e.proxy_id = Val(task["api"].proxy).id
                 /\ e.proxy_id \notin RegIds(proxy_servers')
                 /\ e.proxy_id \notin Ids(proxy_keys')
                 /\ \A r \in traefik' : r[1] # DeletedEntry(e.proxy_id).subdomain]_vars

(***************************************************************************)
(* The recovery specification: the process starts on the store an earlier  *)
(* run left, and lifespan runs restart_all_proxies before any worker or    *)
(* request handler exists (main.py 46-52): one task, from the first line   *)
(* of restart_all_proxies to its return.                                   *)
(*                                                                         *)
(* The stores are built with the program's own steps.  The entries of the  *)
(* earlier run were persisted by create_proxy and lost their forwarders    *)
(* with the process.  LeftStale is the store in which a write-back of the  *)
(* health loop put a deleted entry's port and subdomain on a newer entry.  *)
(***************************************************************************)
\* the most entries create_proxy persisted in a row in the earlier run
RecoverEntries == 3

\* what the provider answered to the creates of the earlier run
RecoveryData == {AllocData, NoEndpoint(AllocData)}

\* create_proxy up to add_proxy, its start_proxy_handler raising (main.py 230-274, 303-305)
Persist(s, data) ==
    LET a == Allocation(s.db)
        p == ProxyKey(a.id, "k1", Val(a.subdomain), Val(a.port), data, 0)
    IN  [s EXCEPT !.db = add_proxy(@, p), !.ever = @ \cup {a.id}]

\* delete_proxy_endpoint of an entry without forwarder (main.py 789-812)
Removed(s, id) ==
    DeleteDone(s, [IdleFrame EXCEPT !.op = "delete", !.proxy = get_proxy_by_id(s.db, id)],
               "ok", 0).s

\* the creates of the earlier run, one per answer of ds
RECURSIVE Left(_)
Left(ds) == IF ds = << >> THEN EmptySt ELSE Persist(Left(SubSeq(ds, 1, Len(ds) - 1)), ds[Len(ds)])

\* a cycle of health_check_worker from its first probe to its sleep, every
\* probe ending the same way (worker.py 36-91)
RECURSIVE HealthRun(_, _, _)
HealthRun(s, f, outcome) ==
    IF f.pc # "probe" THEN s
    ELSE HealthRun(HealthProbed(s, f, outcome, 0).s, HealthProbed(s, f, outcome, 0).f, outcome)

\* Three creates; DELETE 1; the health loop loads its list; DELETE 3; two
\* more creates (ids 3 and 4); the health loop probes and writes back.
LeftStale(d2, d5, outcome) ==
    LET s1 == Removed(Left(<<AllocData, d2, AllocData>>), 1)
        f == HealthAdvance(get_active_proxies(s1.db), 0)
        s2 == Persist(Persist(Removed(s1, 3), AllocData), d5)
    IN  HealthRun(s2, f, outcome)

RecoveryStores ==
    { Left(ds) : ds \in UNION { [1..n -> RecoveryData] : n \in 0..RecoverEntries } }
    \cup { LeftStale(d2, d5, o) : d2 \in RecoveryData, d5 \in RecoveryData,
                                  o \in {"http", "unreachable"} }

\* lifespan, before restart_all_proxies
BootFrame == [IdleFrame EXCEPT !.pc = "boot", !.op = "recover"]

RecoveryInit ==
    \E s \in RecoveryStores :
        /\ proxy_keys = s.db
        /\ logs = s.logs
        /\ traefik = s.traefik
        /\ ever_ids = s.ever
        /\ proxy_servers = EmptyReg
        /\ stray = {}
        /\ settings = [auto_rotate_on_expiration |-> TRUE,
                       auto_rotate_interval_enabled |-> FALSE,
                       auto_rotate_interval_minutes |-> 10]
        /\ task = [t \in {"boot"} |-> BootFrame]
        /\ now = 0
        /\ alloc = None

\* restart_all_proxies from its first line to its first await, or to its end
RecoverCall(t) ==
    /\ task[t].pc = "boot"
    /\ Commit(t, RecoverBegin(Cur))

RecoveryNext ==
    \/ RecoverCall("boot")
    \/ Resume("boot")

SpecRecovery == RecoveryInit /\ [][RecoveryNext]_vars

(***************************************************************************)
(* Claims about startup recovery (specification SpecRecovery).             *)
(***************************************************************************)
\* the start_proxy_handler of the entry under recovery returns in this step
RecoverStartOk == task["boot"].pc = "bound"

\* the start_proxy_handler of the entry under recovery raises in this step
RecoverStartFailed ==
    /\ task["boot"].pc = "bind"
    /\ task'["boot"].pc = "idle" \/ task'["boot"].idx # task["boot"].idx

\* restart_all_proxies returns in this step
RecoverReturns == task["boot"].pc # "idle" /\ task'["boot"].pc = "idle"

\* the status the store holds for the entry id after the step
StatusAfter(id) == Val(get_proxy_by_id(proxy_keys', id)).status

C14_RoutesOfRecovered ==
    [][RecoverReturns =>
          /\ \A r \in traefik' :
                \E i \in 1..Len(proxy_keys') :
                   /\ proxy_keys'[i].status = "active"
                   /\ r = <<proxy_keys'[i].subdomain, proxy_keys'[i].port>>
          /\ \A i \in 1..Len(proxy_keys') :
                LET p == proxy_keys'[i]
                IN  IF p.status = "active"
                    THEN <<p.subdomain, p.port>> \in traefik'
                    ELSE \A r \in traefik' : r[1] # p.subdomain]_vars

(***************************************************************************)
(* The health specification: the program some time after two creates, with *)
(* one caller that asks for manual health checks next to the health loop,  *)
(* while the clock runs.  The second entry was created either from an      *)
(* answer with an endpoint (its start succeeding) or from one without      *)
(* (its start raising).                                                    *)
(***************************************************************************)
\* the entries of the health specification, and its longest log
HealthEntries == 2
HealthMaxLogs == 4

HealthStores == { Seed(Seed(EmptySt)), Persist(Seed(EmptySt), NoEndpoint(AllocData)) }

HealthInit ==
    \E s \in HealthStores :
        /\ proxy_keys = s.db
        /\ logs = s.logs
        /\ traefik = s.traefik
        /\ proxy_servers = s.w.reg
        /\ stray = s.w.stray
        /\ ever_ids = s.ever
        /\ settings = [auto_rotate_on_expiration |-> TRUE,
                       auto_rotate_interval_enabled |-> FALSE,
                       auto_rotate_interval_minutes |-> 10]
        /\ task = [t \in {"api", "health"} |-> IF t = "api" THEN IdleFrame ELSE HealthFrame]
        /\ now = 0
        /\ alloc = None

HealthNext ==
    \/ CheckCall("api", 1..(HealthEntries + 1)) /\ InBounds(HealthEntries, HealthMaxLogs)
    \/ CheckProbe("api") /\ InBounds(HealthEntries, HealthMaxLogs)
    \/ HealthWake("health")
    \/ HealthProbe("health")
    \/ Tick

SpecHealth == HealthInit /\ [][HealthNext]_vars

(***************************************************************************)
(* Claims about the health probes (specification SpecHealth).              *)
(***************************************************************************)
\* the step is the end of a probe by task t that went as outcome says
ProbeEnds(t, outcome) ==
    /\ StepOf(t)
    /\ \/ /\ task[t].pc = "probe"
          /\ proxy_keys' = HealthProbed(Cur, task[t], outcome, now).s.db
          /\ task'[t] = HealthProbed(Cur, task[t], outcome, now).f
       \/ /\ task[t].pc = "check_probe"
          /\ proxy_keys' = CheckProbed(Cur, task[t], outcome, now).s.db
          /\ logs' = CheckProbed(Cur, task[t], outcome, now).s.logs

\* the entry object under probe
ProbedEntry(t) == IF task[t].pc = "probe" THEN Head(task[t].proxies) ELSE Val(task[t].proxy)

\* C15: a health probe, by the loop or on request, leaves the entry persisted
\* with last_check_at stamped and with status active and a latency >= 0 when
\* the bytes read back contain HTTP, with status error and latency null when
\* the probe timed out, was refused, hit an OS error or read no HTTP.
C15_ProbeClassifies ==
    [][\A t \in DOMAIN task : \A o \in ProbeOutcomes :
          ProbeEnds(t, o) =>
             LET e == get_proxy_by_id(proxy_keys', ProbedEntry(t).id)
             IN  /\ e # None
                 /\ Val(e).last_check_at = Some(now)
                 /\ IF BytesHaveHTTP(o)
                    THEN /\ Val(e).status = "active"
                         /\ Val(e).latency_ms # None
                         /\ Val(Val(e).latency_ms) >= 0
                    ELSE /\ Val(e).status = "error"
                         /\ Val(e).latency_ms = None]_vars

(***************************************************************************)
(* The rotation specification: the program some time after two creates at  *)
(* minute 0 and one request that set the settings, with the rotation loop  *)
(* and the clock.  The leases of the two entries have no expiry, or expire *)
(* at minute 1 or 3; a new lease has none or expires two minutes later.    *)
(***************************************************************************)
\* the entries, the longest log and the last minute of the rotation specification
RotEntries == 2
RotMaxLogs == 4
RotMaxTime == 3
\* the largest interval a settings request asks for
RotMaxInterval == 3

RotRemote == RemoteText("10.0.0.1", <<8, 0>>)

RotData == { UpstreamInfo(RotRemote, e) : e \in {None, Some(60000), Some(180000)} }

RotStores == { SeedData(SeedData(EmptySt, d1), d2) : d1 \in RotData, d2 \in RotData }

\* what get_new_proxy yields at minute tn
RotAnswers(tn) ==
    {None} \cup { Some(UpstreamInfo(RotRemote, e)) : e \in {None, Some((tn + 2) * 60000)} }

\* UpdateSettingsRequest: every field is optional
SettingsRequests ==
    [auto_rotate_on_expiration : {None, Some(TRUE), Some(FALSE)},
     auto_rotate_interval_enabled : {None, Some(TRUE), Some(FALSE)},
     auto_rotate_interval_minutes : {None} \cup { Some(m) : m \in 0..RotMaxInterval }]

\* the settings init_data_file writes
DefaultSettings ==
    [auto_rotate_on_expiration |-> TRUE,
     auto_rotate_interval_enabled |-> FALSE,
     auto_rotate_interval_minutes |-> 10]

\* the settings one request to PUT /api/settings leaves persisted
RotSettings == { update_settings_endpoint(DefaultSettings, r).settings : r \in SettingsRequests }

RotInit ==
    \E s \in RotStores, cfg \in RotSettings :
        /\ proxy_keys = s.db
        /\ logs = s.logs
        /\ traefik = s.traefik
        /\ proxy_servers = s.w.reg
        /\ stray = s.w.stray
        /\ ever_ids = s.ever
        /\ settings = cfg
        /\ task = [t \in {"rot"} |-> RotFrame]
        /\ now = 0
        /\ alloc = None

RotNext ==
    \/ RotWake("rot") /\ InBounds(RotEntries, RotMaxLogs)
    \/ RotFetched("rot", RotAnswers(now)) /\ InBounds(RotEntries, RotMaxLogs)
    \/ Resume("rot") /\ InBounds(RotEntries, RotMaxLogs)
    \/ TickTo(RotMaxTime)

SpecRotation == RotInit /\ [][RotNext]_vars

(***************************************************************************)
(* Claims about the rotation loop (specification SpecRotation).  A pass    *)
(* reads the clock once, when it begins (now = datetime.now(), worker.py   *)
(* 122 and 173), and tests the entry objects of the cycle's list in order; *)
(* it rotates an entry by suspending in get_new_proxy for it.  The claims  *)
(* are stated on every decision the loop can take next in a state: at the  *)
(* end of its sleep, and when the rotation in progress returns or raises.  *)
(***************************************************************************)
\* how the rotation in progress can end: the provider call can only raise
\* (its answer leads into restart_proxy_handler), the restart returns or raises
RotReturns(f) == IF f.pc = "rot_fetch" THEN {"fail"} ELSE {"ok", "fail"}

\* the list of the cycle once the rotation in progress has ended
RotList(f, out) ==
    IF out = "ok"
    THEN [f.proxies EXCEPT ![f.idx] = Rotated(f.proxies[f.idx], Val(f.data),
                                             f.proxies[f.idx].region, now)]
    ELSE f.proxies

\* A scan of positions from..len that rotates the entry at stop (none when
\* stop = len + 1) is right for Due: it passes over the entries that are
\* not due and stops at the first that is.
ScanRight(Due(_), from, stop, len) ==
    /\ stop >= from
    /\ \A k \in from..(stop - 1) : ~Due(k)
    /\ stop <= len => Due(stop)

\* where the pass of kind op has stopped in list L when the loop is in frame g
StopOf(g, op, L) == IF g.op = op /\ g.pc = "rot_fetch" THEN g.idx ELSE Len(L) + 1

\* the lease of p is over at minute t or ends within a minute of it
ExpiresWithinAMinute(p, t) == p.expiration_at # None /\ t >= Val(p.expiration_at) - 1

\* C16: with the expiration policy enabled, a cycle of the rotation loop
\* rotates an entry of its list if and only if the entry's expiration_at is
\* set and now >= expiration_at - 1 minute, now being the time the pass read
\* when it began; an entry without expiration_at, or with
\* now < expiration_at - 1 minute, is passed over.
C16_ExpirationDue ==
    LET f == task["rot"]
    IN  /\ (f.pc = "rot_sleep" /\ settings.auto_rotate_on_expiration) =>
              LET L == get_active_proxies(proxy_keys)
              IN  ScanRight(LAMBDA k : ExpiresWithinAMinute(L[k], now), 1,
                            StopOf(RotStart(settings, proxy_keys, now), "auto_exp", L),
                            Len(L))
        /\ f.op = "auto_exp" =>
              \A out \in RotReturns(f) :
                 LET L == RotList(f, out)
                 IN  ScanRight(LAMBDA k : ExpiresWithinAMinute(L[k], f.t0), f.idx + 1,
                               StopOf(RotAdvance([f EXCEPT !.proxies = L], f.idx + 1, now),
                                      "auto_exp", L),
                               Len(L))

\* the pass has passed over entry 1, whose lease ends later, and rotates
\* entry 2 at the first minute at which it is due
C16_Witness ==
    LET f == task["rot"]
    IN  /\ f.op = "auto_exp"
        /\ f.pc = "rot_fetch"
        /\ f.idx = 2
        /\ f.proxies[1].expiration_at # None
        /\ f.t0 < Val(f.proxies[1].expiration_at) - 1
        /\ f.t0 = Val(f.proxies[2].expiration_at) - 1
        /\ f.t0 > 0

\* the minutes from the last rotation of p (its creation when it was never
\* rotated) to minute t are at least m
ElapsedAtLeast(p, t, m) ==
    t - (IF p.last_rotated_at = None THEN p.created_at ELSE Val(p.last_rotated_at)) >= m

\* C17: with the interval policy enabled, a cycle of the rotation loop
\* rotates an entry of its list if and only if the minutes elapsed since its
\* last_rotated_at (its created_at when it was never rotated) are at least
\* the configured interval minutes, counted at the time the pass read when
\* it began.
C17_IntervalDue ==
    LET f == task["rot"]
    IN  /\ (f.pc = "rot_sleep" /\ settings.auto_rotate_interval_enabled) =>
              LET L == get_active_proxies(proxy_keys)
                  g == RotStart(settings, proxy_keys, now)
              IN  g.op # "auto_exp" =>
                     ScanRight(LAMBDA k : ElapsedAtLeast(L[k], now,
                                             settings.auto_rotate_interval_minutes),
                               1, StopOf(g, "auto_int", L), Len(L))
        /\ (f.op = "auto_exp" /\ Val(f.cfg).auto_rotate_interval_enabled) =>
              \A out \in RotReturns(f) :
                 LET L == RotList(f, out)
                     g == RotAdvance([f EXCEPT !.proxies = L], f.idx + 1, now)
                 IN  g.op # "auto_exp" =>
                        ScanRight(LAMBDA k : ElapsedAtLeast(L[k], now,
                                                Val(f.cfg).auto_rotate_interval_minutes),
                                  1, StopOf(g, "auto_int", L), Len(L))
        /\ f.op = "auto_int" =>
              \A out \in RotReturns(f) :
                 LET L == RotList(f, out)
                 IN  ScanRight(LAMBDA k : ElapsedAtLeast(L[k], f.t0,
                                             Val(f.cfg).auto_rotate_interval_minutes),
                               f.idx + 1,
                               StopOf(RotAdvance([f EXCEPT !.proxies = L], f.idx + 1, now),
                                      "auto_int", L),
                               Len(L))

\* the pass has passed over entry 1, rotated less than the interval ago, and
\* rotates entry 2 when exactly the interval has elapsed
C17_Witness ==
    LET f == task["rot"]
    IN  /\ f.op = "auto_int"
        /\ f.pc = "rot_fetch"
        /\ f.idx = 2
        /\ f.proxies[1].last_rotated_at # Some(f.proxies[1].created_at)
        /\ f.t0 - Val(f.proxies[2].last_rotated_at) = Val(f.cfg).auto_rotate_interval_minutes

(***************************************************************************)
(* The settings endpoint alone (claim C18): PUT /api/settings from the     *)
(* settings init_data_file writes, with every combination of given and     *)
(* omitted fields and intervals from 0 up to SettingsMaxMinutes.           *)
(***************************************************************************)
SettingsMaxMinutes == 15

\* UpdateSettingsRequest bodies with intervals 0..SettingsMaxMinutes
SettingsBodies ==
    [auto_rotate_on_expiration : {None, Some(TRUE), Some(FALSE)},
     auto_rotate_interval_enabled : {None, Some(TRUE), Some(FALSE)},
     auto_rotate_interval_minutes : {None} \cup { Some(m) : m \in 0..SettingsMaxMinutes }]

SettingsNext == UpdateSettings("api", SettingsBodies)

SpecSettings == Init /\ [][SettingsNext]_vars

\* a request carrying interval 0 or 1
UnderFloor(request) == request.auto_rotate_interval_minutes \in {Some(0), Some(1)}

\* C18: in every reachable state the persisted interval minutes are at
\* least 2, and a settings update carrying interval 0 or 1 is rejected and
\* leaves every persisted setting as it is, whatever flags the same request
\* supplies.
C18_IntervalFloor ==
    /\ settings.auto_rotate_interval_minutes >= 2
    /\ \A request \in SettingsBodies :
          UnderFloor(request) =>
             update_settings_endpoint(settings, request) =
                [settings |-> settings, out |-> "rejected"]

\* an update was rejected after earlier updates had changed both flags and
\* set the interval to the floor
C18_Witness ==
    /\ task["api"].res = "rejected"
    /\ settings = [auto_rotate_on_expiration |-> FALSE,
                   auto_rotate_interval_enabled |-> TRUE,
                   auto_rotate_interval_minutes |-> 2]

(***************************************************************************)
(* Claim about a successful create (specification SpecStore).              *)
(***************************************************************************)
\* create_proxy returns its answer: the provider answered, the allocation
\* and add_proxy went through and start_proxy_handler returned
CreateReturned ==
    /\ StepOf("api")
    /\ task["api"].op = "create"
    /\ task'["api"].pc = "idle"
    /\ task'["api"].res = "ok"

\* a persisted entry with the id, port and subdomain create allocated has
\* status active
CreatedEntryActive(p) ==
    \E i \in Entries(proxy_keys', p.id) :
       /\ proxy_keys'[i].status = "active"
       /\ proxy_keys'[i].port = p.port
       /\ proxy_keys'[i].subdomain = p.subdomain

\* a forwarder is registered for the id on the allocated port, towards the
\* host and the port number of the provider's endpoint
CreatedForwarder(p) ==
    /\ p.id \in RegIds(proxy_servers')
    /\ proxy_servers'[p.id].port = p.port
    /\ proxy_servers'[p.id].remote =
          RemoteText(p.remote_http[1], StrOf(IntOf(p.remote_http[2])))

\* the gateway file routes the subdomain to the port
CreatedRoute(p) == <<p.subdomain, p.port>> \in traefik'

\* the log has grown by one entry, the successful creation of the id
CreatedLog(p) ==
    /\ Len(logs') = Len(logs) + 1
    /\ SubSeq(logs', 1, Len(logs)) = logs
    /\ logs'[Len(logs')].proxy_id = p.id
    /\ logs'[Len(logs')].action = "create"
    /\ logs'[Len(logs')].status = "success"

\* C19: when the provider fetch, the allocation, the persistence and the
\* forwarder start all succeed, create leaves a persisted entry with status
\* active, a forwarder registered for its id on the allocated port with the
\* provider's endpoint, a gateway route from its subdomain to that port, and
\* one successful creation log entry.
C19_CreateLeaves ==
    [][CreateReturned =>
          LET p == Val(task["api"].proxy)
          IN  /\ CreatedEntryActive(p)
              /\ CreatedForwarder(p)
              /\ CreatedRoute(p)
              /\ CreatedLog(p)]_vars

(***************************************************************************)
(* Bulk import (claim C20): POST /api/proxies/bulk-import on an empty      *)
(* store and on a store with one entry created before, with bodies of up   *)
(* to BulkMaxKeys credentials, bodies over the limit, and empty lines.     *)
(***************************************************************************)
BulkMaxKeys == 2
BulkMaxId == 3
BulkMaxLogs == 3

\* a body of n credentials after b empty lines
BulkBody(n, b) == [i \in 1..(n + b) |-> IF i <= b THEN "" ELSE "k1"]

BulkBodies ==
    { BulkBody(n, b) : n \in (0..BulkMaxKeys) \cup {BulkLimit + 1, BulkLimit + 2},
                       b \in {0, 1} }

BulkStores == {EmptySt, Seed(EmptySt)}

BulkInit ==
    \E s \in BulkStores :
       /\ proxy_keys = s.db
       /\ logs = s.logs
       /\ traefik = s.traefik
       /\ proxy_servers = s.w.reg
       /\ stray = s.w.stray
       /\ ever_ids = s.ever
       /\ settings = DefaultSettings
       /\ task = [t \in {"api"} |-> IdleFrame]
       /\ now = 0
       /\ alloc = None

BulkNext ==
    \/ BulkCall("api", BulkBodies) /\ InBounds(BulkMaxId, BulkMaxLogs)
    \/ BulkFetched("api", EndpointAnswers) /\ InBounds(BulkMaxId, BulkMaxLogs)
    \/ Resume("api") /\ InBounds(BulkMaxId, BulkMaxLogs)
    \/ DeleteCall("api", 1..BulkMaxId) /\ InBounds(BulkMaxId, BulkMaxLogs)

SpecBulk == BulkInit /\ [][BulkNext]_vars

\* C20: a bulk import with more than 50 credentials is rejected before any
\* provider call is made and leaves the persisted entries, the registry, the
\* log and the gateway configuration unchanged: in every reachable state,
\* the handler run on such a body ends at once with its 400, in the state
\* it started from.
C20_OverLimitRejected ==
    \A lines \in BulkBodies :
       Len(ParseKeys(lines)) > BulkLimit =>
          BulkStart(Cur, lines) = Res(Cur, Done("too_many"))

\* an import over the limit was rejected while an imported entry is
\* persisted, forwarded, routed and logged
C20_Witness ==
    /\ task["api"].res = "too_many"
    /\ proxy_keys # << >>
    /\ RegIds(proxy_servers) # {}
    /\ traefik # {}
    /\ \E i \in 1..Len(logs) : logs[i].action = "bulk_import"

(***************************************************************************)
(* Claims about the loop of a bulk import (specification SpecBulk).        *)
(***************************************************************************)
\* the import settles the credential it is at in this step: one of its two
\* results lists grows by one
BulkSettles ==
    /\ StepOf("api")
    /\ task["api"].op = "bulk"
    /\ task'["api"].success_count + task'["api"].failed_count
          = task["api"].success_count + task["api"].failed_count + 1

\* the id of the entry of the credential the import is at: the one it has
\* allocated, or the one the allocator gives it next
BulkEntryId ==
    IF task["api"].proxy # None THEN Val(task["api"].proxy).id
    ELSE get_next_proxy_id(proxy_keys)

\* after the credential the import goes to the next one, or, after the last
\* one, answers with results for every credential
BulkGoesOn ==
    LET f == task["api"]
        g == task'["api"]
    IN  IF f.idx < Len(f.keys)
        THEN g.pc = "bulk_fetch" /\ g.idx = f.idx + 1 /\ g.keys = f.keys
        ELSE /\ g.pc = "idle"
             /\ g.res = "ok"
             /\ g.success_count + g.failed_count = Len(f.keys)

\* the credential is reported as succeeded exactly when its entry is
\* persisted and its forwarder registered afterwards; reported as failed, it
\* leaves neither
BulkReportExact ==
    IF task'["api"].success_count = task["api"].success_count + 1
    THEN /\ BulkEntryId \in Ids(proxy_keys')
         /\ BulkEntryId \in RegIds(proxy_servers')
    ELSE /\ BulkEntryId \notin Ids(proxy_keys')
         /\ BulkEntryId \notin RegIds(proxy_servers')

\* C21: a bulk import of n <= 50 credentials processes every credential in
\* order whatever the outcome of the others and reports success_count +
\* failed_count = n; the newly persisted entries and newly registered
\* forwarders are exactly those of the credentials reported as succeeded: a
\* credential reported as failed leaves no new entry and no new forwarder.
C21_BulkReportsExactly ==
    [][BulkSettles => BulkGoesOn /\ BulkReportExact]_vars

(***************************************************************************)
(* Shutdown (claim C22): the application serves two entries whose leases   *)
(* end within a minute, so that the rotation loop restarts their           *)
(* forwarders, the health loop probes them and DELETE requests stop them;  *)
(* at any moment at which no request is in flight the shutdown event       *)
(* arrives.                                                                *)
(***************************************************************************)
ShutdownMaxLogs == 3

ShutdownStore == SeedData(SeedData(EmptySt, UpstreamInfo(RotRemote, Some(60000))),
                          UpstreamInfo(RotRemote, Some(60000)))

SchedulerLoops == {"health", "rot"}

ShutdownInit ==
    /\ proxy_keys = ShutdownStore.db
    /\ logs = ShutdownStore.logs
    /\ traefik = ShutdownStore.traefik
    /\ proxy_servers = ShutdownStore.w.reg
    /\ stray = ShutdownStore.w.stray
    /\ ever_ids = ShutdownStore.ever
    /\ settings = DefaultSettings
    /\ task = [t \in {"life", "api"} \cup SchedulerLoops |->
                  CASE t = "life" -> ServingFrame
                    [] t = "api" -> IdleFrame
                    [] t = "health" -> HealthFrame
                    [] t = "rot" -> RotFrame]
    /\ now = 0
    /\ alloc = None

ShutdownNext ==
    \/ RotWake("rot") /\ InBounds(RotEntries, ShutdownMaxLogs)
    \/ RotFetched("rot", RotAnswers(now)) /\ InBounds(RotEntries, ShutdownMaxLogs)
    \/ Resume("rot") /\ InBounds(RotEntries, ShutdownMaxLogs)
    \/ HealthWake("health")
    \/ HealthProbe("health")
    \/ DeleteCall("api", 1..RotEntries) /\ InBounds(RotEntries, ShutdownMaxLogs)
    \/ Resume("api") /\ InBounds(RotEntries, ShutdownMaxLogs)
    \/ Shutdown("life", SchedulerLoops, {"api"})
    \/ Resume("life")

SpecShutdown == ShutdownInit /\ [][ShutdownNext]_vars

C22_Witness ==
    /\ task["life"].pc = "exited"
    /\ Len(task["life"].ids) = 2

RequestFails(ops) ==
    /\ StepOf("api")
    /\ task["api"].op \in ops
    /\ task'["api"].pc = "idle"
    /\ task'["api"].res = "fail"

\* the log has grown by exactly one entry, with outcome failed, for the
\* action the api task was in
OneFailedLog ==
    /\ Len(logs') = Len(logs) + 1
    /\ SubSeq(logs', 1, Len(logs)) = logs
    /\ logs'[Len(logs')].status = "failed"
    /\ logs'[Len(logs')].action = task["api"].op

\* C23: every create, manual rotate, update or delete that fails reports the
\* error to the caller and appends exactly one log entry with outcome failed
\* for that action.
C23_FailureIsLogged ==
    [][RequestFails({"create", "rotate", "update", "delete"}) => OneFailedLog]_vars

(***************************************************************************)
(* One entry under all its writers (claims C24, C25): an entry whose lease *)
(* ends within a minute, so that the rotation loop rotates it in every     *)
(* cycle, next to the health loop and to manual rotate and update requests *)
(* for it.  The provider hands out a second endpoint.                      *)
(***************************************************************************)
RaceMaxLogs == 2

RaceStore == SeedData(EmptySt, UpstreamInfo(RemoteText("10.0.0.1", <<8, 0>>), Some(60000)))

RaceAnswers == {None, Some(UpstreamInfo(RemoteText("10.0.0.2", <<8, 1>>), Some(60000)))}

RaceInit ==
    /\ proxy_keys = RaceStore.db
    /\ logs = RaceStore.logs
    /\ traefik = RaceStore.traefik
    /\ proxy_servers = RaceStore.w.reg
    /\ stray = RaceStore.w.stray
    /\ ever_ids = RaceStore.ever
    /\ settings = DefaultSettings
    /\ task = [t \in {"api", "health", "rot"} |->
                  IF t = "api" THEN IdleFrame
                  ELSE IF t = "health" THEN HealthFrame ELSE RotFrame]
    /\ now = 0
    /\ alloc = None

RaceNext ==
    \/ RotateCall("api", {1}) /\ InBounds(1, RaceMaxLogs)
    \/ RotateFetched("api", RaceAnswers) /\ InBounds(1, RaceMaxLogs)
    \/ UpdateCall("api", {1}) /\ InBounds(1, RaceMaxLogs)
    \/ UpdateFetched("api", RaceAnswers) /\ InBounds(1, RaceMaxLogs)
    \/ Resume("api") /\ InBounds(1, RaceMaxLogs)
    \/ RotWake("rot") /\ InBounds(1, RaceMaxLogs)
    \/ RotFetched("rot", RaceAnswers) /\ InBounds(1, RaceMaxLogs)
    \/ Resume("rot") /\ InBounds(1, RaceMaxLogs)
    \/ HealthWake("health") /\ InBounds(1, RaceMaxLogs)
    \/ HealthProbe("health") /\ InBounds(1, RaceMaxLogs)

SpecRace == RaceInit /\ [][RaceNext]_vars

\* task t is inside restart_proxy_handler for entry id: between the stop and
\* the return of the start (the specification makes no other forwarder call)
InRestart(t, id) == task[t].pc \in FwPositions /\ task[t].id = id

\* C24: at no time are two restart operations for the same entry id in
\* flight together: a restart issued by the rotation loop and a manual
\* rotate or update for the same id never overlap between the stop of one
\* and the completion of its start.
C24_RestartsExclusive ==
    \A id \in Ids(proxy_keys) : ~(InRestart("api", id) /\ InRestart("rot", id))

\* no task is inside an operation on the entry: the api task holds no
\* request, the rotation loop sleeps, the health loop sleeps
NothingInFlight == \A t \in DOMAIN task : task[t].pc \in {"idle", "rot_sleep", "health_sleep"}

\* the host and port number the registry holds for id are those of the
\* entry's upstream endpoint
SameEndpoint(p) ==
    /\ p.remote_http # None
    /\ proxy_servers[p.id].remote = RemoteText(p.remote_http[1], StrOf(IntOf(p.remote_http[2])))

\* C25: whenever no operation on an entry is in flight and a forwarder is
\* registered for it, the upstream endpoint stored in the registry equals
\* the upstream endpoint of the persisted entry, under any interleaving of
\* the health-check loop, the rotation loop, manual rotate and update.
C25_RegistryMatchesEntry ==
    NothingInFlight =>
       \A i \in 1..Len(proxy_keys) :
          proxy_keys[i].id \in RegIds(proxy_servers) => SameEndpoint(proxy_keys[i])

(***************************************************************************)
(* Claims about one rotation by the loop (specification SpecRotation, in   *)
(* which nothing but the rotation loop touches the entries).               *)
(***************************************************************************)
\* The restart of the rotation in progress succeeds in this step: the
\* listener start_server has bound is registered and start returns.
RotationSucceeds ==
    /\ StepOf("rot")
    /\ task["rot"].op \in {"auto_exp", "auto_int"}
    /\ task["rot"].pc = "bound"

\* C26: when a due rotation's provider call and forwarder restart both
\* succeed and nothing else touches the entry, the registry maps the id, on
\* its unchanged port, to the new endpoint; the persisted entry carries the
\* new endpoint, IP, location, expiration, ttl, ttc and a new
\* last_rotated_at; and exactly one log entry is appended, a success tagged
\* with the policy that fired.
C26_RotationApplied ==
    [][RotationSucceeds =>
          LET f == task["rot"]
              p == f.proxies[f.idx]
              data == Val(f.data)
          IN  /\ p.id \in RegIds(proxy_servers')
              /\ proxy_servers'[p.id].port = p.port
              /\ proxy_servers'[p.id].remote =
                    RemoteText(data.http[1], StrOf(IntOf(data.http[2])))
              /\ \A i \in Entries(proxy_keys', p.id) :
                    /\ proxy_keys'[i].port = p.port
                    /\ proxy_keys'[i].remote_http = data.http
                    /\ proxy_keys'[i].remote_ip = data.realIpAddress
                    /\ proxy_keys'[i].location = data.location
                    /\ proxy_keys'[i].expiration_at = ExpirationIso(data.expirationAt)
                    /\ proxy_keys'[i].ttl = data.ttl
                    /\ proxy_keys'[i].ttc = data.ttc
                    /\ proxy_keys'[i].last_rotated_at = Some(now)
              /\ Entries(proxy_keys', p.id) # {}
              /\ Len(logs') = Len(logs) + 1
              /\ SubSeq(logs', 1, Len(logs)) = logs
              /\ logs'[Len(logs')].proxy_id = p.id
              /\ logs'[Len(logs')].status = "success"
              /\ logs'[Len(logs')].action =
                    (IF f.op = "auto_exp" THEN "auto_rotate_expiration"
                     ELSE "auto_rotate_interval")]_vars

\* the interval policy has rotated entry 2 at a later minute: its lease now
\* ends two minutes after the rotation
C26_Witness ==
    /\ logs # << >>
    /\ logs[Len(logs)].action = "auto_rotate_interval"
    /\ logs[Len(logs)].status = "success"
    /\ logs[Len(logs)].proxy_id = 2
    /\ now > 0
    /\ \E i \in Entries(proxy_keys, 2) :
          /\ proxy_keys[i].last_rotated_at = Some(logs[Len(logs)].timestamp)
          /\ proxy_keys[i].expiration_at = Some(logs[Len(logs)].timestamp + 2)

\* The provider call of the rotation task t raises in this step: the
\* task leaves the await of get_new_proxy without entering the restart (a
\* provider answer always leads into restart_proxy_handler, which suspends).
ProviderFails(t) ==
    /\ StepOf(t)
    /\ task[t].pc \in {"rot_fetch", "rotate_fetch"}
    /\ task'[t].pc \notin FwPositions

\* the entry a rotation task is rotating
RotatingEntry(t) ==
    IF task[t].op = "rotate" THEN Val(task[t].proxy)
    ELSE task[t].proxies[task[t].idx]

\* the tag of a rotation task in the log
RotationTag(t) ==
    IF task[t].op = "rotate" THEN "rotate"
    ELSE IF task[t].op = "auto_exp" THEN "auto_rotate_expiration"
    ELSE "auto_rotate_interval"

\* C27: when the provider call of a rotation (automatic or manual) fails, the
\* forwarder of that entry stays registered with its old port and old
\* upstream endpoint, the persisted entry is unchanged, and the only state
\* change is one appended log entry with outcome failed carrying the
\* provider's error text.
C27_ProviderFailureLeavesState ==
    [][\A t \in DOMAIN task :
          ProviderFails(t) =>
             /\ proxy_servers' = proxy_servers
             /\ stray' = stray
             /\ proxy_keys' = proxy_keys
             /\ settings' = settings
             /\ traefik' = traefik
             /\ Len(logs') = Len(logs) + 1
             /\ SubSeq(logs', 1, Len(logs)) = logs
             /\ logs'[Len(logs')].proxy_id = RotatingEntry(t).id
             /\ logs'[Len(logs')].action = RotationTag(t)
             /\ logs'[Len(logs')].status = "failed"
             /\ logs'[Len(logs')].details = Some(<<"error">>)]_vars

\* a rotation by the loop has failed at the provider, and the forwarder of
\* the entry is still registered, open, with its port and upstream
C27_Witness ==
    /\ logs # << >>
    /\ logs[Len(logs)].status = "failed"
    /\ logs[Len(logs)].action = "auto_rotate_expiration"
    /\ task["rot"].op = "auto_exp"
    /\ task["rot"].pc \notin FwPositions
    /\ logs[Len(logs)].proxy_id \in RegIds(proxy_servers)
    /\ \A i \in Entries(proxy_keys, logs[Len(logs)].proxy_id) :
          /\ proxy_servers[proxy_keys[i].id].port = proxy_keys[i].port
          /\ proxy_servers[proxy_keys[i].id].open
          /\ proxy_keys[i].remote_http = RemoteText("10.0.0.1", <<8, 0>>)

\* a manual rotation has failed at the provider and the request has ended
C27_WitnessManual ==
    /\ logs # << >>
    /\ logs[Len(logs)].status = "failed"
    /\ logs[Len(logs)].action = "rotate"
    /\ task["api"].pc = "idle"
    /\ task["api"].res = "fail"
    /\ logs[Len(logs)].proxy_id \in RegIds(proxy_servers)

(***************************************************************************)
(* Claims about a start that fails.                                        *)
(***************************************************************************)
\* Task t's call of start (alone or at the end of a restart) raises in this
\* step: the bind of start_server fails and no retry follows, or the
\* constructor raises on an endpoint that is None.
StartFails(t) ==
    /\ StepOf(t)
    /\ \/ task[t].pc = "bind" /\ task'[t].pc \notin {"bound", "cleanup_wait"}
       \/ task[t].pc = "sleep02" /\ task[t].remote = None

\* C28: whenever start or restart for an entry id ends in failure, that id
\* is absent from the registry afterwards and no listener opened by the
\* failed call remains bound.
C28_FailedStartUnregistered ==
    [][\A t \in DOMAIN task :
          StartFails(t) =>
             /\ task[t].id \notin RegIds(proxy_servers')
             /\ ListenersOf(task[t].id)' <= ListenersOf(task[t].id)]_vars

\* The rotations of one entry alone: a manual rotate next to the rotation
\* loop, from the state of SpecRace, with room in the log for the entries of
\* two rotations.
RestartMaxLogs == 3

RestartNext ==
    \/ RotateCall("api", {1}) /\ InBounds(1, RestartMaxLogs)
    \/ RotateFetched("api", RaceAnswers) /\ InBounds(1, RestartMaxLogs)
    \/ Resume("api") /\ InBounds(1, RestartMaxLogs)
    \/ RotWake("rot") /\ InBounds(1, RestartMaxLogs)
    \/ RotFetched("rot", RaceAnswers) /\ InBounds(1, RestartMaxLogs)
    \/ Resume("rot") /\ InBounds(1, RestartMaxLogs)

SpecRestart == RaceInit /\ [][RestartNext]_vars

(***************************************************************************)
(* Claims about the retry of start (specification SpecForwarderFair: the   *)
(* callers of SpecForwarder; the event loop resumes every suspended call). *)
(***************************************************************************)
SpecForwarderFair ==
    /\ FwInit
    /\ [][FwNext]_vars
    /\ \A t \in FwTasks : WF_vars(FwResume(t))

\* the call of task t has raised
Raised(f) == f.pc = "idle" /\ f.res = "fail"

\* One run of task t inside start.  A bind attempt is a run from the position
\* bind; the retry flag of the frame tells the first attempt (TRUE) from the
\* second (FALSE).
\*  - An attempt ends in the bound listener, in the failure of the call, or,
\*    only if retries are enabled and another registered entry holds the port,
\*    in the stop of that one entry, which closes no other server.
\*  - The stop of the conflicting entry removes no other item, and leads to
\*    the pause and from there to one more attempt with retries disabled.
RetryStep(t) ==
    LET f == task[t]
        g == task'[t]
        others == { i \in RegIds(proxy_servers) :
                       i # f.id /\ proxy_servers[i].port = f.port }
    IN  /\ f.pc = "bind" =>
              \/ g.pc = "bound"
              \/ Raised(g) /\ proxy_servers' = proxy_servers /\ stray' = stray
              \/ /\ g.pc = "cleanup_wait"
                 /\ f.retry
                 /\ g.pid \in others
                 /\ RegIds(proxy_servers') = RegIds(proxy_servers)
                 /\ \A i \in RegIds(proxy_servers) \ {g.pid} :
                       proxy_servers'[i] = proxy_servers[i]
        /\ f.pc = "bind" /\ others = {} => g.pc = "bound" \/ Raised(g)
        /\ f.pc = "bind" /\ ~f.retry => g.pc = "bound" \/ Raised(g)
        /\ f.pc = "cleanup_wait" =>
              /\ g.pc = "sleep05"
              /\ RegIds(proxy_servers) \ {f.pid} \subseteq RegIds(proxy_servers')
              /\ \A i \in RegIds(proxy_servers) \ {f.pid} :
                    proxy_servers'[i] = proxy_servers[i]
        /\ f.pc = "sleep05" =>
              /\ g.pc = "bind"
              /\ ~g.retry
              /\ g.id = f.id /\ g.port = f.port /\ g.remote = f.remote
              /\ \A i \in RegIds(proxy_servers) \ {f.id} :
                    i \in RegIds(proxy_servers') /\ proxy_servers'[i] = proxy_servers[i]

\* C29: every call of start terminates after at most two bind attempts: on a
\* port-already-bound failure it stops at most one conflicting registered
\* entry and retries exactly once with retries disabled; if the retry fails,
\* or if no other registered entry holds the port, it fails without any
\* further attempt.
C29_StartRetriesOnce ==
    /\ [][\A t \in FwTasks : StepOf(t) /\ task'[t] # task[t] => RetryStep(t)]_vars
    /\ \A t \in FwTasks :
          (task[t].pc \in {"bind", "cleanup_wait", "sleep05"}) ~> (task[t].pc = "idle")

\* a start is at its second bind attempt, with retries disabled, after it
\* has stopped the entry that held its port
C29_Witness ==
    \E t \in FwTasks :
       /\ task[t].pc = "bind"
       /\ ~task[t].retry
       /\ task[t].call = "start"
       /\ \A i \in RegIds(proxy_servers) : proxy_servers[i].port # task[t].port

(***************************************************************************)
(* Claims about a failure inside a rotation cycle (SpecRotation).          *)
(***************************************************************************)
\* the rotation in progress in the loop fails in this step, at the provider
\* or in the restart of the forwarder
RotationFails == ProviderFails("rot") \/ StartFails("rot")

\* entry k of list L is due for the pass of kind op that read time t0
DueIn(op, L, k, t0, cfg) ==
    IF op = "auto_exp" THEN ExpiresWithinAMinute(L[k], t0)
    ELSE ElapsedAtLeast(L[k], t0, cfg.auto_rotate_interval_minutes)

\* C30: in a rotation cycle, a failure on one entry (provider error or
\* forwarder restart failure) appends a failed log entry for that entry, and
\* every other active entry of the cycle is still evaluated: the pass goes on
\* behind the entry, over the same list, to the next entry that is due, and
\* the interval pass, when enabled, still follows the expiration pass; at the
\* end of the cycle the loop sleeps as after any cycle, so that the next
\* cycle runs as usual.
C30_FailureDoesNotBlock ==
    [][RotationFails =>
          LET f == task["rot"]
              g == task'["rot"]
              L == f.proxies
              cfg == Val(f.cfg)
              stop == StopOf(g, f.op, L)
          IN  /\ Len(logs') = Len(logs) + 1
              /\ SubSeq(logs', 1, Len(logs)) = logs
              /\ logs'[Len(logs')].proxy_id = L[f.idx].id
              /\ logs'[Len(logs')].status = "failed"
              /\ logs'[Len(logs')].action = RotationTag("rot")
              /\ proxy_keys' = proxy_keys
              /\ g.pc \in {"rot_fetch", "rot_sleep"}
              /\ g.pc = "rot_fetch" => g.proxies = L /\ g.cfg = f.cfg
              /\ g.pc = "rot_sleep" => g = RotFrame
              /\ ScanRight(LAMBDA k : DueIn(f.op, L, k, f.t0, cfg), f.idx + 1, stop, Len(L))
              /\ (stop <= Len(L)) => g.t0 = f.t0
              /\ (stop > Len(L) /\ f.op = "auto_exp" /\ cfg.auto_rotate_interval_enabled) =>
                    ScanRight(LAMBDA k : DueIn("auto_int", L, k, now, cfg), 1,
                              StopOf(g, "auto_int", L), Len(L))
              /\ (stop > Len(L) /\ ~(f.op = "auto_exp" /\ cfg.auto_rotate_interval_enabled)) =>
                    g.pc = "rot_sleep"]_vars

\* the rotation of the first entry of the cycle has failed in this pass, and
\* the pass is rotating the second
C30_Witness ==
    LET f == task["rot"]
    IN  /\ f.pc = "rot_fetch"
        /\ f.idx = 2
        /\ logs # << >>
        /\ logs[Len(logs)].status = "failed"
        /\ logs[Len(logs)].proxy_id = f.proxies[1].id
        /\ logs[Len(logs)].action = RotAction(f)
        /\ logs[Len(logs)].timestamp >= f.t0
        /\ now > 0

(***************************************************************************)
(* The health loop alone, its probes ending in any of the ways the code    *)
(* provides for: a verdict (ProbeOutcomes), or an exception that neither   *)
(* except clause of the probe names, which the try block around the entry  *)
(* catches (worker.py 84-85).  Such an exception comes from the parse of   *)
(* the endpoint text (lines 37-39), from the probe, or from the file write *)
(* of update_proxy (line 82).                                              *)
(***************************************************************************)
\* health_check_worker from a probe that raised to its next await (worker.py
\* 84-87): the error is logged by the logger and the loop goes on with the
\* next entry; update_proxy is not reached.
HealthProbeRaises(t) ==
    /\ task[t].pc = "probe"
    /\ Commit(t, Res(Cur, HealthAdvance(Tail(task[t].proxies), now)))

CycleMaxTime == 2

CycleNext ==
    \/ HealthWake("health")
    \/ HealthProbe("health")
    \/ HealthProbeRaises("health")
    \/ TickTo(CycleMaxTime)

SpecCycle == HealthInit /\ [][CycleNext]_vars

\* the objects of list L that have an upstream endpoint
WithEndpoint(L) == SelectSeq(L, LAMBDA p : p.remote_http # None)

\* the entries the loop in frame g has still to probe in its cycle
ToProbe(g) == IF g.pc = "probe" THEN WithEndpoint(g.proxies) ELSE << >>

\* C31: in each health-check cycle, every active entry with a non-null
\* upstream endpoint is probed and persisted exactly once, whatever the
\* outcome (success, failure or raised exception) of the probes of the other
\* entries in that cycle.  A cycle begins with all such entries to probe, in
\* order; the end of a probe persists the entry probed, stamped with the
\* time, touches no other entry, and leaves the rest of the list to probe.
C31_EachProbedAndPersistedOnce ==
    [][StepOf("health") =>
          LET f == task["health"]
              g == task'["health"]
          IN  /\ f.pc = "health_sleep" =>
                    ToProbe(g) = WithEndpoint(get_active_proxies(proxy_keys))
              /\ f.pc = "probe" =>
                    LET h == Head(f.proxies)
                    IN  /\ ToProbe(g) = WithEndpoint(Tail(f.proxies))
                        /\ Len(proxy_keys') = Len(proxy_keys)
                        /\ \A i \in 1..Len(proxy_keys) :
                              IF proxy_keys[i].id = h.id
                              THEN /\ proxy_keys'[i].last_check_at = Some(now)
                                   /\ proxy_keys'[i].status \in {"active", "error"}
                                   /\ proxy_keys'[i].id = h.id
                              ELSE proxy_keys'[i] = proxy_keys[i]]_vars

(***************************************************************************)
(* The two scheduler loops side by side, fairly scheduled: every await of  *)
(* a loop returns or raises (SpecLoops).  The log is bounded: a step that  *)
(* would write beyond LoopsMaxLogs is left out, and the rotation loop      *)
(* rests where it is once the log is full.  The clock stands at the minute *)
(* at which the entry of RaceStore is due for rotation, and so is every    *)
(* lease the provider grants: each cycle finds the entry due.              *)
(***************************************************************************)
\* a handler of the rotation pass whose add_log raises, ending the loop
RotHandlerRaisesEndsLoop(t) ==
    /\ task[t].pc = "rot_fetch"
    /\ Commit(t, Res(Cur, Done("fail")))

\* The provider call of a pass raises and, in the except branch of the pass,
\* add_log raises in its turn (worker.py 166-168, 221-223): the exception
\* escapes the cycle's body, auto_rotation_worker's except logs it and the
\* loop sleeps its interval (worker.py 115-117).
RotHandlerRaises(t) ==
    /\ task[t].pc = "rot_fetch"
    /\ Commit(t, Res(Cur, RotFrame))

LoopsMaxLogs == 3

LoopsNext ==
    \/ HealthWake("health")
    \/ HealthProbe("health")
    \/ HealthProbeRaises("health")
    \/ RotWake("rot")
    \/ RotFetched("rot", RaceAnswers) /\ InBounds(1, LoopsMaxLogs)
    \/ RotHandlerRaises("rot")
    \/ Resume("rot") /\ InBounds(1, LoopsMaxLogs)

SpecLoops ==
    /\ RaceInit
    /\ [][LoopsNext]_vars
    /\ WF_vars(HealthWake("health"))
    /\ WF_vars(HealthProbe("health"))
    /\ WF_vars(RotWake("rot"))
    /\ WF_vars(RotFetched("rot", RaceAnswers) /\ InBounds(1, LoopsMaxLogs))
    /\ WF_vars(Resume("rot") /\ InBounds(1, LoopsMaxLogs))

\* the positions of the health loop and of the rotation loop
HealthPositions == {"health_sleep", "probe"}
RotPositions == {"rot_sleep", "rot_fetch"} \cup FwPositions

LogFull == Len(logs) >= LoopsMaxLogs

\* C32: until it is cancelled, each scheduler loop begins a new cycle
\* infinitely often: an exception raised while processing one entry, or
\* escaping the body of a cycle, never terminates the loop, which resumes
\* after its polling interval.  Each loop stays inside its while loop, and
\* it is again and again in the sleep from which the next cycle begins (for
\* the rotation loop: as long as the log of the model has room).
C32_LoopsNeverEnd ==
    /\ [](task["health"].pc \in HealthPositions /\ task["rot"].pc \in RotPositions)
    /\ []<>(task["health"].pc = "health_sleep")
    /\ []<>(task["rot"].pc = "rot_sleep" \/ LogFull)

\* the rotation loop sleeps again after a pass in which the rotation of the
\* entry failed, with room left in the log
C32_Witness ==
    /\ task["rot"].pc = "rot_sleep"
    /\ task["health"].pc = "health_sleep"
    /\ logs # << >>
    /\ logs[Len(logs)].status = "failed"
    /\ logs[Len(logs)].action = "auto_rotate_expiration"
    /\ ~LogFull
    /\ \E i \in 1..Len(proxy_keys) : proxy_keys[i].last_check_at # None

C34_RegisteredArePersisted == RegIds(proxy_servers) \subseteq Ids(proxy_keys)

\* A delete next to the rotation loop, from the state of SpecRace, with room
\* in the log for the entries of a rotation and of a delete.
DeleteRaceMaxLogs == 3

DeleteRaceNext ==
    \/ DeleteCall("api", {1}) /\ InBounds(1, DeleteRaceMaxLogs)
    \/ Resume("api") /\ InBounds(1, DeleteRaceMaxLogs)
    \/ RotWake("rot") /\ InBounds(1, DeleteRaceMaxLogs)
    \/ RotFetched("rot", RaceAnswers) /\ InBounds(1, DeleteRaceMaxLogs)
    \/ Resume("rot") /\ InBounds(1, DeleteRaceMaxLogs)

SpecDeleteRace == RaceInit /\ [][DeleteRaceNext]_vars

(***************************************************************************)
(* Claims about listeners (specification SpecForwarder).                   *)
(***************************************************************************)
\* C35: in every reachable state, each bound listener belongs to the handler
\* that the registry holds for its entry id: under any interleaving of
\* start, stop and restart calls (including two restarts of the same id
\* overlapping), no listener stays bound after its registry entry was
\* removed or replaced.  (stray holds the ids whose item was removed or
\* replaced while the server it held was open.)
C35_NoStrayListener == stray = {}

(***************************************************************************)
(* Claims about what a health check writes.                                *)
(***************************************************************************)
\* entries p and q agree on everything a health check does not set
SameButHealth(p, q) ==
    [p EXCEPT !.status = "active", !.latency_ms = None, !.last_check_at = None]
  = [q EXCEPT !.status = "active", !.latency_ms = None, !.last_check_at = None]

\* C36: a health check of an entry changes only that entry's status, latency
\* and last_check_at in the persisted store: the upstream endpoint, IP,
\* location, expiration, ttl, ttc, region and last_rotated_at that the store
\* holds at the time of the write are left unchanged, even when a rotation
\* or update of the same entry completed while the probe was in flight.
C36_HealthWritesOnlyHealth ==
    [][\A t \in DOMAIN task :
          (StepOf(t) /\ task'[t] # task[t] /\ task[t].pc = "probe") =>
             /\ Len(proxy_keys') = Len(proxy_keys)
             /\ \A i \in 1..Len(proxy_keys) :
                   SameButHealth(proxy_keys'[i], proxy_keys[i])]_vars

\* C37: once an entry has been deleted, no later write restores its data: a
\* health-check, rotation or update step that loaded the entry before the
\* delete never writes its owner, credential, subdomain or port back into
\* the store, including when a newly created entry has received the same id.
\* A step of a task that is not creating an entry leaves the owner, the
\* credential, the subdomain and the port of every stored entry as they are.
C37_NoStaleRestore ==
    [][\A t \in DOMAIN task :
          (StepOf(t) /\ task'[t] # task[t]
             /\ task[t].op \in {"health", "check", "rotate", "update",
                               "auto_exp", "auto_int"}) =>
             /\ Len(proxy_keys') = Len(proxy_keys)
             /\ \A i \in 1..Len(proxy_keys) :
                   /\ proxy_keys'[i].id = proxy_keys[i].id
                   /\ proxy_keys'[i].user_id = proxy_keys[i].user_id
                   /\ proxy_keys'[i].kiotproxy_key = proxy_keys[i].kiotproxy_key
                   /\ proxy_keys'[i].subdomain = proxy_keys[i].subdomain
                   /\ proxy_keys'[i].port = proxy_keys[i].port]_vars

(***************************************************************************)
(* Claims about the gateway configuration (specification Spec).            *)
(***************************************************************************)
\* the (subdomain, port) pairs of the persisted entries whose status is active
ActivePairs ==
    { <<proxy_keys[i].subdomain, proxy_keys[i].port>> :
         i \in { k \in 1..Len(proxy_keys) : proxy_keys[k].status = "active" } }

\* C38: whenever no caller operation and no scheduler step is in flight, the
\* set of routes in the gateway configuration equals the set of (subdomain,
\* port) pairs of the persisted entries whose status is active.
C38_RoutesMatchActive == NothingInFlight => traefik = ActivePairs

(***************************************************************************)
(* Claims about the policies of a rotation cycle (SpecRotation).           *)
(***************************************************************************)
\* C39: the rotation loop reads the settings once per cycle and applies only
\* the enabled policies: in a cycle that read both policy flags as disabled,
\* the loop makes no provider call, restarts no forwarder, changes no entry
\* and appends no log entry.  Stated on the loop's next decision and on the
\* pass in progress: a cycle that begins with both flags disabled goes
\* straight back to the sleep, and a pass in progress is one whose policy
\* the settings read at the cycle's start enable (provider calls, restarts,
\* writes of entries and log entries of the loop only occur in a pass).
C39_OnlyEnabledPolicies ==
    LET f == task["rot"]
    IN  /\ (f.pc = "rot_sleep" /\ ~settings.auto_rotate_on_expiration
                               /\ ~settings.auto_rotate_interval_enabled) =>
              RotStart(settings, proxy_keys, now) = RotFrame
        /\ f.pc # "rot_sleep" =>
              /\ f.op \in {"auto_exp", "auto_int"}
              /\ f.cfg # None
              /\ f.op = "auto_exp" => Val(f.cfg).auto_rotate_on_expiration
              /\ f.op = "auto_int" => Val(f.cfg).auto_rotate_interval_enabled

\* both policies are disabled while an entry's lease is over: the loop
\* sleeps, and nothing has been rotated or logged since the creates
C39_Witness ==
    /\ ~settings.auto_rotate_on_expiration
    /\ ~settings.auto_rotate_interval_enabled
    /\ task["rot"].pc = "rot_sleep"
    /\ now > 0
    /\ \E i \in 1..Len(proxy_keys) : ExpiresWithinAMinute(proxy_keys[i], now)
    /\ \A k \in 1..Len(logs) : logs[k].action = "create"

(***************************************************************************)
(* The first cycle of the rotation loop that rotates: the loop of          *)
(* SpecRotation, which sleeps on once one of its cycles has written to the *)
(* log (SpecOneCycle).  Every log entry of a rotation is then an entry of  *)
(* one and the same cycle.                                                 *)
(***************************************************************************)
\* the log holds nothing but the entries of the creates
OnlyCreatesLogged == \A k \in 1..Len(logs) : logs[k].action = "create"

OneCycleNext ==
    \/ RotWake("rot") /\ OnlyCreatesLogged /\ InBounds(RotEntries, RotMaxLogs)
    \/ RotFetched("rot", RotAnswers(now)) /\ InBounds(RotEntries, RotMaxLogs)
    \/ Resume("rot") /\ InBounds(RotEntries, RotMaxLogs)
    \/ TickTo(RotMaxTime)

SpecOneCycle == RotInit /\ [][OneCycleNext]_vars

\* the expiration policy has rotated entry id with success
RotatedOnExpiration(id) ==
    \E k \in 1..Len(logs) :
       /\ logs[k].proxy_id = id
       /\ logs[k].action = "auto_rotate_expiration"
       /\ logs[k].status = "success"

\* C40: within one rotation cycle in which both policies are enabled, an
\* entry that was successfully rotated by the expiration policy is not
\* rotated a second time by the interval policy of the same cycle: the
\* interval pass never asks the provider for, nor restarts, an entry that
\* the expiration pass of the cycle has rotated.
C40_NoSecondRotation ==
    LET f == task["rot"]
    IN  (f.op = "auto_int" /\ f.pc # "rot_sleep") =>
           ~RotatedOnExpiration(f.proxies[f.idx].id)

====
